---- MODULE Spec2Model ----
(***************************************************************************)
(* Session supervision of baileys-api (src/src/session.ts, second          *)
(* revision, lines 391-847): the process-wide registry maps (sessions,     *)
(* retries, QRGenerations), the Session instances with their sockets, and  *)
(* the asynchronous continuations of the connection.update handler.        *)
(*                                                                         *)
(* JavaScript runs one callback at a time, so every action below is the    *)
(* code that runs between two awaits.  What is awaited (toDataURL, the     *)
(* storage calls of create and destroy, a timer) is a task in `pending`;   *)
(* a task completes in a later action, and anything may run in between.    *)
(***************************************************************************)
EXTENDS Integers, FiniteSets, Sequences, Bags, TLC

\* ---------------------------------------------------------------- bounds
Ids == {"acct1"}            \* session identifiers in play
MaxInst == 1                \* Session objects alive at once
MaxPending == 2             \* awaited operations and timers in flight at once
MaxRacers == 2              \* Session objects alive at once when creations race

MaxReplays == 2         \* deliveries of one bulk set that are told apart

\* ------------------------------------------------------- program constants
MAX_QR_GENERATION == 5      \* Number(process.env.MAX_QR_GENERATION || 5)
DefaultMaxRetries == 5      \* the "|| 5" of shouldReconnect's parseInt
ConfiguredMaxRetries == 5   \* process.env.MAX_RECONNECT_RETRIES as configured
RECONNECT_INTERVAL == 3000  \* Number(process.env.RECONNECT_INTERVAL || 0), configured

\* ws.readyState
CONNECTING == 0
OPEN == 1
CLOSING == 2
CLOSED == 3

\* DisconnectReason classes of handleConnectionClose; every reason other
\* than loggedOut and restartRequired takes the same path as connectionLost.
Reasons == {"loggedOut", "restartRequired", "connectionLost"}

Null == "null"
Image == "data:image/png;base64"

VARIABLES
    envMaxRetries,  \* process.env.MAX_RECONNECT_RETRIES, fixed at start
    sessions,       \* whatsappInit.sessions : id -> Session instance
    retries,        \* session.retries : id -> number
    QRGenerations,  \* session.QRGenerations : id -> number
    records,        \* ids that have a Session Configuration Record in storage
    config,         \* the data column of that record, by id
    inst,           \* the Session objects, by slot
    pending,        \* bag of awaited operations and timers
    rendered,       \* history: images rendered for the id since open / request
    scheduled,      \* history: reconnections scheduled since open / request
    closeRun,       \* history: run of retryable closes since the counter was last deleted
    openHandled,    \* history: open handled and no QR or close event since
    last,           \* history: the handler step that has just run
    options,        \* this.options of the session: res, SSE, usePairingCode
    bus,            \* socket.ev: the listeners of each event, and each store
                    \* handler's hasStartedListening
    webhook,        \* options.webhook of the session and whether WEBHOOK_URL is set
    mirror,         \* the storage tables the store handlers write
    jobs,           \* bag of store-handler invocations in progress
    hooks,          \* bag of webhook sends in progress
    boot,           \* whatsappInit.init(): its position and what it has started
    note,           \* history: the store, webhook or boot step that has just run
    replay          \* history: the bulk set delivered last, how often, on what mirror

sessionVars == <<envMaxRetries, sessions, retries, QRGenerations, records, config, inst,
                 pending, rendered, scheduled, closeRun, openHandled, last, options, bus>>
storeVars == <<webhook, mirror, jobs, hooks, note, replay>>

vars == <<envMaxRetries, sessions, retries, QRGenerations, records, config, inst,
          pending, rendered, scheduled, closeRun, openHandled, last, options, bus,
          webhook, mirror, jobs, hooks, boot, note, replay>>

\* ------------------------------------------------------------ Map helpers
Has(m, k) == k \in DOMAIN m
Get(m, k, d) == IF k \in DOMAIN m THEN m[k] ELSE d
Put(m, k, v) == [x \in (DOMAIN m) \cup {k} |-> IF x = k THEN v ELSE m[x]]
Delete(m, k) == [x \in (DOMAIN m) \ {k} |-> m[x]]
EmptyMap == [x \in {} |-> 0]

Min(a, b) == IF a < b THEN a ELSE b

\* --------------------------------------------------------- configuration
\* export const MAX_RECONNECT_RETRIES = Number(process.env.MAX_RECONNECT_RETRIES || 5)
MAX_RECONNECT_RETRIES == envMaxRetries

\* const maxRetries = parseInt(process.env.MAX_RECONNECT_RETRIES) || 5
maxRetries == IF envMaxRetries = 0 THEN DefaultMaxRetries ELSE envMaxRetries

\* ------------------------------------------------------------- instances
\* The Session objects the process holds.
Slots == DOMAIN inst

FreeSlot == [sessionId |-> "", readyState |-> CLOSED,
             lastGeneratedQR |-> Null, user |-> FALSE, destroyed |-> FALSE]

\* new Session(sessionState, options): field initialisers and makeWASocket
NewSession(sessionId) ==
    [sessionId |-> sessionId, readyState |-> CONNECTING,
     lastGeneratedQR |-> Null, user |-> FALSE, destroyed |-> FALSE]

Used(i) == inst[i].sessionId # ""

\* usePairingCode && phoneNumber && !creds.registered && !creds.account:
\* the options ask for a pairing code and the instance has no account yet.
PairingBranch(i) == options.usePairingCode /\ ~inst[i].user

\* const state = ['CONNECTING', 'CONNECTED', 'DISCONNECTING', 'DISCONNECTED']
StateNames == <<"CONNECTING", "CONNECTED", "DISCONNECTING", "DISCONNECTED">>

\* Mutant of Status: the readiness phase wins over the identified account.
StatusByPhase(readyState, user) ==
    IF readyState = OPEN /\ user THEN "AUTHENTICATED" ELSE StateNames[readyState + 1]

\* Session.status(): state[ws.readyState], AUTHENTICATED when socket.user is set
Status(readyState, user) ==
    IF user THEN "AUTHENTICATED" ELSE StateNames[readyState + 1]

\* ----------------------------------------------------------------- tasks
Task(kind, id, i, n, flag) == [kind |-> kind, id |-> id, inst |-> i, n |-> n, flag |-> flag]

\* setTimeout(() => Session.create(this.options), delay)
TimerTask(id, delay) == Task("timer", id, 0, delay, FALSE)
\* Session.create awaiting useSession and the configuration upsert
\* (explicit: asked for by a request, not by a reconnection timer)
CreateTask(id, explicit) == Task("create", id, 0, 0, explicit)
\* handleConnectionUpdate awaiting toDataURL, holding currentQRGenerations
RenderTask(id, i, cur) == Task("render", id, i, cur, FALSE)
\* destroy awaiting Promise.all([logout, deleteMany]); awaited = 1 when
\* handleConnectionClose awaits it
DestroyTask(id, i, logoutIssued, awaited) == Task("destroy", id, i, awaited, logoutIssued)
\* The destroy task once storage has carried out its deleteMany, while the
\* Promise.all has not settled yet.
LandedTask(t) == [t EXCEPT !.n = @ + 2]
Awaited(t) == t.n % 2 = 1
Landed(t) == t.n >= 2

Tasks == BagToSet(pending)
Room(n) == BagCardinality(pending) + n <= MaxPending

\* A Session object can be forgotten once its socket is closed, the registry
\* does not hold it and no continuation refers to it.
Collectable(instF, sess, pend, i) ==
    /\ instF[i].sessionId # ""
    /\ instF[i].readyState = CLOSED
    /\ Get(sess, instF[i].sessionId, 0) # i
    /\ \A t \in BagToSet(pend) : t.inst # i

Tidy(instF, sess, pend) ==
    [i \in Slots |-> IF Collectable(instF, sess, pend, i) THEN FreeSlot ELSE instF[i]]

\* ------------------------------------------------------ shouldReconnect
\* Mutant of ShouldReconnect: the unlimited sentinel is not looked at.
ShouldReconnectCapped(m, sessionId) ==
    LET attempts == Get(m, sessionId, 0) IN
    IF attempts < MAX_RECONNECT_RETRIES
    THEN [ok |-> TRUE, retries |-> Put(m, sessionId, attempts + 1)]
    ELSE [ok |-> FALSE, retries |-> m]

\* Mutant of ShouldReconnect: the count starts again with every Session
\* (retries.set(sessionId, 1) instead of attempts + 1).
ShouldReconnectFresh(m, sessionId) ==
    LET attempts == Get(m, sessionId, 0) IN
    IF attempts < MAX_RECONNECT_RETRIES \/ maxRetries = -1
    THEN [ok |-> TRUE, retries |-> Put(m, sessionId, 1)]
    ELSE [ok |-> FALSE, retries |-> m]

\* Returns the boolean result and the retries map as the call leaves it.
ShouldReconnect(m, sessionId) ==
    LET attempts == Get(m, sessionId, 0) IN
    IF attempts < MAX_RECONNECT_RETRIES \/ maxRetries = -1
    THEN [ok |-> TRUE, retries |-> Put(m, sessionId, attempts + 1)]
    ELSE [ok |-> FALSE, retries |-> m]

\* reconnect(): restartRequired ? 0 : RECONNECT_INTERVAL
ReconnectDelay(reason) == IF reason = "restartRequired" THEN 0 ELSE RECONNECT_INTERVAL

\* ------------------------------------------------ handleConnectionUpdate
\* const currentQRGenerations = QRGenerations.get(sessionId) ?? -1
CurrentQRGenerations(m, sessionId) == Get(m, sessionId, -1)

\* const limitReached = currentQRGenerations >= MAX_QR_GENERATION
LimitReached(cur) == cur >= MAX_QR_GENERATION

\* QRGenerations.set(sessionId, currentQRGenerations + 1) inside the try
CountRender(m, sessionId, cur) == Put(m, sessionId, cur + 1)

\* --------------------------------------------------------------- destroy
\* logout && ws.readyState !== ws.CLOSING && ws.readyState !== ws.CLOSED && this.socket.logout()
LogoutIssued(logout, readyState) ==
    logout /\ readyState # CLOSING /\ readyState # CLOSED

\* Mutant of DestroyFinally: the deletes sit in the try block, after the await.
DestroyInTry(m, sessionId, ok) == IF ok THEN Delete(m, sessionId) ELSE m

\* The finally block: the entry of sessionId leaves the map whatever the
\* outcome `ok` of the awaited Promise.all.
DestroyFinally(m, sessionId, ok) == Delete(m, sessionId)

\* try / catch around the await: the rejection is logged, not rethrown.
DestroyRaises(logoutOk, deleteOk) == FALSE

\* Mutant of DeleteRaises: Session.get(sessionId).destroy() without the ?.
DeleteRaisesOnAbsent(found) == ~found

\* Session.get(sessionId)?.destroy(): nothing is called on an absent session.
DeleteRaises(found) == FALSE

\* The part of handleConnectionUpdate that follows a connection.update with
\* no qr: only the limit check can act, by calling destroy() unawaited.
LimitTasks(qrMap, sessionId, i, readyState) ==
    IF LimitReached(CurrentQRGenerations(qrMap, sessionId))
    THEN SetToBag({DestroyTask(sessionId, i, LogoutIssued(TRUE, readyState), 0)})
    ELSE EmptyBag

\* ------------------------------------------------- interactive response
\* options.res is the express Response of the request that asked for the
\* session.  Of the object, the model keeps what the handlers test
\* (headersSent, writableEnded) and what the client was sent last (`sent`);
\* `late` records a write made after the response had ended.
NoResponse == [attached |-> FALSE, headersSent |-> FALSE, writableEnded |-> FALSE,
               sent |-> "nothing", late |-> FALSE]
\* controllers/session.ts add: Session.create({ sessionId, res, ... })
PlainResponse == [NoResponse EXCEPT !.attached = TRUE]
\* controllers/session.ts addSSE: res.writeHead(200, ...) then
\* Session.create({ sessionId, res, SSE: true })
StreamResponse == [NoResponse EXCEPT !.attached = TRUE, !.headersSent = TRUE]

\* Session.create({ sessionId, ...data }) of init(): no res, QR mode
Detached == [res |-> NoResponse, SSE |-> FALSE, usePairingCode |-> FALSE,
             readIncomingMessages |-> FALSE]

\* --------------------------------------------------- configuration data
\* The data column holds JSON text: here the set of its <<key, text>>
\* members.  JSON.stringify leaves out the members that are undefined and
\* the response object carries no option.
NoData == {}
ToText(b) == IF b THEN "true" ELSE "false"

\* const data = JSON.stringify(options) of Session.create
StringifyOptions(opt) ==
    {<<"readIncomingMessages", ToText(opt.readIncomingMessages)>>,
     <<"usePairingCode", ToText(opt.usePairingCode)>>}
    \cup (IF opt.SSE THEN {<<"SSE", "true">>} ELSE {})

\* JSON.stringify({ readIncomingMessages, proxy, webhook, authType,
\* phoneNumber, ...socketConfig }) of the update controller
StringifyBody(body) ==
    {<<"readIncomingMessages", ToText(body.readIncomingMessages)>>}

\* The text of member key in data
Member(data, key) == (CHOOSE m \in data : m[1] = key)[2]

\* The outcome of a run of calls on the response: the response as they
\* leave it and whether one of them threw.
Done(r) == [res |-> r, threw |-> FALSE]
Threw(r) == [res |-> r, threw |-> TRUE]

\* res.status(code).json(body): express sets the headers and ends the
\* response; setting headers that were already sent throws.
ResJson(r, payload) ==
    IF r.headersSent
    THEN Threw([r EXCEPT !.late = @ \/ r.writableEnded])
    ELSE Done([r EXCEPT !.headersSent = TRUE, !.writableEnded = TRUE, !.sent = payload])

\* res.write(frame): a write after end is refused by the stream.
ResWrite(r, payload) ==
    IF r.writableEnded
    THEN Done([r EXCEPT !.late = TRUE])
    ELSE Done([r EXCEPT !.headersSent = TRUE, !.sent = payload])

\* res.end(): ends the response; nothing happens when it has ended.
ResEnd(r) == Done([r EXCEPT !.headersSent = TRUE, !.writableEnded = TRUE])

\* utils.ts response(res, statusCode, success, message, data):
\* res.status(statusCode); res.json({...}); res.end(), on whatever res is.
Response(r, payload) ==
    IF ~r.attached THEN Threw(r)
    ELSE LET j == ResJson(r, payload) IN
         IF j.threw THEN j ELSE ResEnd(j.res)

\* The end of handleConnectionUpdate: what the attached response is sent
\* for this update.  qr: the update carries a qr; generated: toDataURL
\* gave an image.
Deliver(opt, limitReached, qr, generated) ==
    LET r == opt.res IN
    IF ~r.attached \/ r.writableEnded THEN Done(r)
    ELSE IF opt.SSE
         THEN LET w == ResWrite(r, IF limitReached THEN "error" ELSE "data") IN
              IF limitReached THEN ResEnd(w.res) ELSE w
         ELSE IF limitReached THEN ResJson(r, "error")
              ELSE IF qr /\ generated THEN ResJson(r, "data")
              ELSE IF qr /\ ~generated THEN ResJson(r, "error")
              ELSE Done(r)

\* handleConnectionClose, terminal branch:
\* if (res && !res.writableEnded) { !SSE && res.status(500).json({error}); res.end(); }
FailPending(opt) ==
    LET r == opt.res IN
    IF r.attached /\ ~r.writableEnded
    THEN LET j == IF opt.SSE THEN Done(r) ELSE ResJson(r, "error") IN
         IF j.threw THEN j ELSE ResEnd(j.res)
    ELSE Done(r)

\* ------------------------------------------------------ event emitter
\* The store handlers, and for each the event.on calls of its listen() in
\* the order of the code, as <<event, callback>>.
Handlers == {"chat", "message", "contact", "group"}

Subscriptions(h) ==
    CASE h = "chat" -> << <<"messaging-history.set", "chat.set">>,
                          <<"chats.upsert", "chat.upsert">>,
                          <<"chats.update", "chat.update">>,
                          <<"chats.delete", "chat.del">>,
                          <<"chats.phoneNumberShare", "chat.chatPhoneNumberShare">> >>
      [] h = "message" -> << <<"messaging-history.set", "message.set">>,
                             <<"messages.upsert", "message.upsert">>,
                             <<"messages.update", "message.update">>,
                             <<"messages.delete", "message.del">>,
                             <<"message-receipt.update", "message.updateReceipt">>,
                             <<"messages.reaction", "message.updateReaction">> >>
      [] h = "contact" -> << <<"messaging-history.set", "contact.set">>,
                             <<"contacts.upsert", "contact.upsert">>,
                             <<"contacts.update", "contact.update">> >>
      [] h = "group" -> << <<"groups.upsert", "group.upsert">>,
                           <<"groups.update", "group.update">> >>

\* this.socket.ev.process(...) of bindEvents: the session's own subscription
SessionCallback == <<"process", "session.bindEvents">>

BusEvents ==
    {SessionCallback[1]} \cup
    UNION {{Subscriptions(h)[n][1] : n \in 1..Len(Subscriptions(h))} : h \in Handlers}

\* The callback h subscribes to event, "" when it subscribes to none.
CallbackOf(h, event) ==
    LET hit == {n \in 1..Len(Subscriptions(h)) : Subscriptions(h)[n][1] = event} IN
    IF hit = {} THEN "" ELSE Subscriptions(h)[CHOOSE n \in hit : TRUE][2]

\* How often callback is in a listener list
Times(list, callback) == Cardinality({n \in 1..Len(list) : list[n] = callback})

\* emitter.on(event, callback): appended, whether already listed or not
On(list, callback) == Append(list, callback)

\* emitter.off(event, callback): the instance added last is removed, nothing
\* when the callback is not listed
Off(list, callback) ==
    LET hit == {n \in 1..Len(list) : list[n] = callback} IN
    IF hit = {} THEN list
    ELSE LET n == CHOOSE m \in hit : \A o \in hit : o <= m IN
         SubSeq(list, 1, n - 1) \o SubSeq(list, n + 1, Len(list))

\* Mutant of HandlerListen: no `if (hasStartedListening) return`.
HandlerListenAgain(b, h) ==
    [on |-> [e \in BusEvents |->
                IF CallbackOf(h, e) = "" THEN b.on[e] ELSE On(b.on[e], CallbackOf(h, e))],
     started |-> [b.started EXCEPT ![h] = TRUE]]

\* listen() of handler h
HandlerListen(b, h) ==
    IF b.started[h] THEN b
    ELSE [on |-> [e \in BusEvents |->
                     IF CallbackOf(h, e) = "" THEN b.on[e]
                     ELSE On(b.on[e], CallbackOf(h, e))],
          started |-> [b.started EXCEPT ![h] = TRUE]]

\* unlisten() of handler h
HandlerUnlisten(b, h) ==
    IF ~b.started[h] THEN b
    ELSE [on |-> [e \in BusEvents |->
                     IF CallbackOf(h, e) = "" THEN b.on[e]
                     ELSE Off(b.on[e], CallbackOf(h, e))],
          started |-> [b.started EXCEPT ![h] = FALSE]]

\* Store.listen() and Store.unlisten(): chat, message, contact, group
StoreListen(b) ==
    HandlerListen(HandlerListen(HandlerListen(HandlerListen(b, "chat"), "message"),
                                "contact"), "group")
StoreUnlisten(b) ==
    HandlerUnlisten(HandlerUnlisten(HandlerUnlisten(HandlerUnlisten(b, "chat"), "message"),
                                    "contact"), "group")

\* A socket whose events nobody listens to
Silent == [on |-> [e \in BusEvents |-> <<>>], started |-> [h \in Handlers |-> FALSE]]

\* The Session constructor: new Store(options, socket.ev), whose constructor
\* calls listen(), then bindEvents().
Subscribed ==
    LET b == StoreListen(Silent) IN
    [b EXCEPT !.on[SessionCallback[1]] = On(@, SessionCallback[2])]

\* --------------------------------------------------------------- history
\* `last` describes the step that has just run: which handler, for which
\* id, and what the handler saw and decided.
NoLast == [op |-> "none", id |-> "", reason |-> "undefined", attempts |-> 0,
           wasOpen |-> FALSE, terminal |-> FALSE, explicit |-> FALSE,
           existed |-> FALSE, again |-> FALSE, ok |-> TRUE, raised |-> FALSE,
           before |-> NoResponse, limit |-> FALSE, replaced |-> FALSE]

RenderedCap == MAX_QR_GENERATION + 1

QRCountCap == MAX_QR_GENERATION + 1
ScheduledCap == ConfiguredMaxRetries + 1
RetryCountCap == ConfiguredMaxRetries + 2

\* ------------------------------------------------------- webhook options
\* options.webhook = { enabled, events: 'all' | string[] } and process.env.WEBHOOK_URL
WebhookOff == [enabled |-> FALSE, all |-> TRUE, only |-> {}, url |-> TRUE]
WebhookAll == [enabled |-> TRUE, all |-> TRUE, only |-> {}, url |-> TRUE]

\* ---------------------------------------------------------------- tables
Tables == {"chat", "contact", "group", "message", "session"}
EmptyMirror == [t \in Tables |-> EmptyMap]

\* ------------------------------------------------------------------ boot
BootOff == [phase |-> "off", stored |-> <<>>, started |-> {}]

\* history of the store side
NoNote == [op |-> "none"]

\* The payload of messaging-history.set
History(chats, contacts, messages) ==
    [chats |-> chats, contacts |-> contacts, messages |-> messages, isLatest |-> FALSE]

\* No bulk set has been delivered.
NoReplay == [event |-> History(<<>>, <<>>, <<>>), times |-> 0, before |-> EmptyMirror,
             quiet |-> TRUE]

\* No store handler, webhook send or boot is in progress and nothing is mirrored.
StoreIdle ==
    /\ webhook = WebhookOff
    /\ mirror = EmptyMirror
    /\ jobs = EmptyBag
    /\ hooks = EmptyBag
    /\ boot = BootOff
    /\ note = NoNote
    /\ replay = NoReplay

\* ------------------------------------------------------------------ Init
Init ==
    /\ envMaxRetries = ConfiguredMaxRetries
    /\ sessions = EmptyMap
    /\ retries = EmptyMap
    /\ QRGenerations = EmptyMap
    /\ records = {}
    /\ config = [id \in Ids |-> NoData]
    /\ inst = [i \in 1..MaxInst |-> FreeSlot]
    /\ pending = EmptyBag
    /\ rendered = [id \in Ids |-> 0]
    /\ scheduled = [id \in Ids |-> 0]
    /\ closeRun = [id \in Ids |-> 0]
    /\ openHandled = [id \in Ids |-> FALSE]
    /\ last = NoLast
    /\ bus = Subscribed
    /\ options = Detached
    /\ StoreIdle

\* Assign the program state, forgetting the Session objects nothing reaches.
\* write is the data a storage call of the step has put into the records
\* it names; a record that leaves storage takes its data with it.
Persist(sess, retr, qrg, recs, instF, pend, write) ==
    /\ sessions' = sess
    /\ retries' = retr
    /\ QRGenerations' = qrg
    /\ records' = recs
    /\ config' = [id \in Ids |-> IF id \notin recs THEN NoData
                                ELSE IF id \in DOMAIN write THEN write[id]
                                ELSE config[id]]
    /\ pending' = pend
    /\ inst' = Tidy(instF, sess, pend)
    /\ UNCHANGED <<envMaxRetries, bus>>
    /\ UNCHANGED <<webhook, mirror, jobs, hooks, boot, note, replay>>

\* The same for a step that writes no record data.
Commit(sess, retr, qrg, recs, instF, pend) ==
    Persist(sess, retr, qrg, recs, instF, pend, EmptyMap)

\* ------------------------------------------------------- HTTP controllers
\* controllers/session.ts add: refuse when Session.exists, else Session.create
\* (not awaited): it runs up to its await of useSession and the upsert.
RequestCreate(id) ==
    /\ ~Has(sessions, id)
    /\ Room(1)
    /\ Commit(sessions, retries, QRGenerations, records, inst,
              pending (+) SetToBag({CreateTask(id, TRUE)}))
    /\ rendered' = [rendered EXCEPT ![id] = 0]
    /\ scheduled' = [scheduled EXCEPT ![id] = 0]
    /\ UNCHANGED <<closeRun, openHandled, options>>
    /\ last' = NoLast

\* controllers/session.ts del -> Session.delete(sessionId): destroy() of the
\* registered instance runs up to its await; nothing happens when absent.
RequestDelete(id) ==
    /\ IF Has(sessions, id)
       THEN LET i == sessions[id] IN
            /\ Room(1)
            /\ Commit(sessions, retries, QRGenerations, records, inst,
                      pending (+) SetToBag({DestroyTask(id, i,
                            LogoutIssued(TRUE, inst[i].readyState), 0)}))
            /\ last' = NoLast
       ELSE /\ Commit(sessions, retries, QRGenerations, records, inst, pending)
            /\ last' = [NoLast EXCEPT !.op = "deleteAbsent", !.id = id,
                                      !.raised = DeleteRaises(FALSE)]
    /\ UNCHANGED <<rendered, scheduled, closeRun, openHandled, options>>

\* ------------------------------------------------ Session.create, timers
\* The reconnection timer fires: Session.create(this.options) starts.
TimerFire(t) ==
    /\ t \in Tasks /\ t.kind = "timer"
    /\ Commit(sessions, retries, QRGenerations, records, inst,
              (pending (-) SetToBag({t})) (+) SetToBag({CreateTask(t.id, FALSE)}))
    /\ UNCHANGED <<rendered, scheduled, closeRun, openHandled, options>>
    /\ last' = NoLast

\* Slots a new Session for id may take: free ones, and the one of a closed
\* Session that only the registry entry being replaced still reaches.
FreeSlots(id) ==
    {i \in Slots : ~Used(i) \/ Collectable(inst, Delete(sessions, id), pending, i)}

\* The Promise.all of Session.create settles.  Fulfilled: the record is in
\* storage and the constructor runs (socket, bindEvents, sessions.set).
\* Rejected: create rejects and no Session is constructed.
CreateFinish(t, ok) ==
    /\ t \in Tasks /\ t.kind = "create"
    /\ LET pend == pending (-) SetToBag({t}) IN
       IF ok
       THEN /\ FreeSlots(t.id) # {}
            /\ LET i == CHOOSE s \in FreeSlots(t.id) : \A o \in FreeSlots(t.id) : s <= o IN
               Persist(Put(sessions, t.id, i), retries, QRGenerations,
                       records \cup {t.id},
                       [inst EXCEPT ![i] = NewSession(t.id)], pend,
                       Put(EmptyMap, t.id, StringifyOptions(options)))
       ELSE Commit(sessions, retries, QRGenerations, records, inst, pend)
    /\ UNCHANGED <<rendered, scheduled, closeRun, openHandled, options>>
    /\ last' = IF ok THEN [NoLast EXCEPT !.op = "create", !.id = t.id,
                                          !.explicit = t.flag,
                                          !.existed = Has(sessions, t.id)]
                     ELSE NoLast

\* ------------------------------------- connection.update: the transport
\* A socket that is not closed may deliver any update at any time.

\* connection.update carrying a qr.  The handler stores the update, reads
\* the attempt counter and awaits toDataURL.
EvQR(i) ==
    /\ Used(i) /\ inst[i].readyState \in {CONNECTING, OPEN} /\ ~inst[i].user
    /\ ~PairingBranch(i)
    /\ Room(1)
    /\ LET id == inst[i].sessionId
           cur == CurrentQRGenerations(QRGenerations, id) IN
       /\ cur < QRCountCap
       /\ Commit(sessions, retries, QRGenerations, records,
                 [inst EXCEPT ![i].readyState = OPEN],
                 pending (+) SetToBag({RenderTask(id, i, cur)}))
       /\ openHandled' = [openHandled EXCEPT ![id] = FALSE]
       /\ last' = NoLast
    /\ UNCHANGED <<rendered, scheduled, closeRun, options>>

\* toDataURL settles and handleConnectionUpdate resumes with the value of
\* currentQRGenerations it read before the await.
RenderDone(t, ok) ==
    /\ t \in Tasks /\ t.kind = "render"
    /\ LET i == t.inst
           id == t.id
           cur == t.n
           qrg == IF ok THEN CountRender(QRGenerations, id, cur) ELSE QRGenerations
           instF == IF ok THEN [inst EXCEPT ![i].lastGeneratedQR = Image] ELSE inst
           stop == IF LimitReached(cur)
                   THEN SetToBag({DestroyTask(id, i,
                            LogoutIssued(TRUE, inst[i].readyState), 0)})
                   ELSE EmptyBag
           sent == Deliver(options, LimitReached(cur), TRUE, ok) IN
       /\ Commit(sessions, retries, qrg, records, instF,
                 (pending (-) SetToBag({t})) (+) stop)
       /\ rendered' = [rendered EXCEPT ![id] = IF ok THEN Min(@ + 1, RenderedCap) ELSE @]
       /\ options' = [options EXCEPT !.res = sent.res]
       /\ last' = [NoLast EXCEPT !.op = "render", !.id = id, !.ok = ok,
                                 !.terminal = LimitReached(cur),
                                 !.raised = sent.threw, !.before = options.res]
    /\ UNCHANGED <<scheduled, closeRun, openHandled>>

\* connection.update with connection = open: the handler clears the cached
\* QR and both counters, then handleConnectionUpdate runs without a qr.
EvOpen(i) ==
    /\ Used(i) /\ inst[i].readyState \in {CONNECTING, OPEN}
    /\ LET id == inst[i].sessionId
           retr == Delete(retries, id)
           qrg == Delete(QRGenerations, id)
           stop == LimitTasks(qrg, id, i, OPEN)
           sent == Deliver(options, LimitReached(CurrentQRGenerations(qrg, id)),
                           FALSE, FALSE) IN
       /\ Room(BagCardinality(stop))
       /\ Commit(sessions, retr, qrg, records,
                 [inst EXCEPT ![i].readyState = OPEN,
                              ![i].user = TRUE,
                              ![i].lastGeneratedQR = Null],
                 pending (+) stop)
       /\ rendered' = [rendered EXCEPT ![id] = 0]
       /\ scheduled' = [scheduled EXCEPT ![id] = 0]
       /\ closeRun' = [closeRun EXCEPT ![id] = 0]
       /\ openHandled' = [openHandled EXCEPT ![id] = TRUE]
       /\ options' = [options EXCEPT !.res = sent.res]
       /\ last' = [NoLast EXCEPT !.op = "open", !.id = id,
                                 !.raised = sent.threw, !.before = options.res]

\* The handlers parked in waitForConnectionUpdate of a socket that closes
\* are never resumed: no update with a qr comes from it any more.
Parked(pend, id, i) ==
    LET n == CopiesIn([kind |-> "wait", id |-> id, inst |-> i, n |-> 0, flag |-> FALSE],
                      pend) IN
    IF n = 0 THEN pend
    ELSE pend (-) [t \in {[kind |-> "wait", id |-> id, inst |-> i, n |-> 0,
                           flag |-> FALSE]} |-> n]

\* connection.update with connection = close and a disconnect reason.
\* handleConnectionClose: shouldReconnect, then either destroy (awaited) or
\* reconnect followed by handleConnectionUpdate, which in the pairing-code
\* branch parks on the closed socket.  pend0 is what is in flight when the
\* handler starts and write what the caller has just stored.
ConnectionClosed(i, reason, pend0, write) ==
    /\ Used(i) /\ inst[i].readyState # CLOSED
    /\ Get(retries, inst[i].sessionId, 0) < RetryCountCap
    /\ LET id == inst[i].sessionId
           sr == ShouldReconnect(retries, id)
           doNotReconnect == ~sr.ok
           terminal == reason = "loggedOut" \/ doNotReconnect
           new == IF terminal
                  THEN SetToBag({DestroyTask(id, i, LogoutIssued(doNotReconnect, CLOSED), 1)})
                  ELSE SetToBag({TimerTask(id, ReconnectDelay(reason))})
                       (+) (IF PairingBranch(i) THEN EmptyBag
                            ELSE LimitTasks(QRGenerations, id, i, CLOSED))
           sent == IF terminal THEN FailPending(options)
                   ELSE IF PairingBranch(i) THEN Done(options.res)
                   ELSE Deliver(options,
                                LimitReached(CurrentQRGenerations(QRGenerations, id)),
                                FALSE, FALSE)
           pend == Parked(pend0, id, i) IN
       /\ BagCardinality(pend) + BagCardinality(new) <= MaxPending
       /\ Persist(sessions, sr.retries, QRGenerations, records,
                  [inst EXCEPT ![i].readyState = CLOSED],
                  pend (+) new, write)
       /\ scheduled' = [scheduled EXCEPT ![id] =
                           IF terminal THEN @ ELSE Min(@ + 1, ScheduledCap)]
       /\ closeRun' = [closeRun EXCEPT ![id] =
                           IF ~terminal /\ reason = "connectionLost" /\ @ >= 0
                           THEN @ + 1 ELSE -1]
       /\ openHandled' = [openHandled EXCEPT ![id] = FALSE]
       /\ last' = [NoLast EXCEPT !.op = "close", !.id = id, !.reason = reason,
                                 !.attempts = Get(retries, id, 0),
                                 !.wasOpen = openHandled[id],
                                 !.terminal = terminal,
                                 !.limit = ~terminal /\ ~PairingBranch(i) /\
                                     LimitReached(CurrentQRGenerations(QRGenerations, id)),
                                 !.raised = sent.threw, !.before = options.res]
       /\ options' = [options EXCEPT !.res = sent.res]
       /\ UNCHANGED rendered

EvClose(i, reason) == ConnectionClosed(i, reason, pending, EmptyMap)

\* The Promise.all of destroy settles.  A logout that succeeded has ended
\* the socket (its close update has been delivered); a failed deleteMany
\* leaves the records.  The finally block then runs; when
\* handleConnectionClose awaited the destroy, handleConnectionUpdate follows.
DestroyFinish(t, logoutOk, deleteOk) ==
    /\ t \in Tasks /\ t.kind = "destroy"
    /\ LET i == t.inst
           id == t.id
           ok == logoutOk /\ deleteOk
           qrg == DestroyFinally(QRGenerations, id, ok)
           stop == IF Awaited(t) /\ ~PairingBranch(i)
                   THEN LimitTasks(qrg, id, i, inst[i].readyState)
                   ELSE EmptyBag
           sent == IF Awaited(t) /\ ~PairingBranch(i)
                   THEN Deliver(options, LimitReached(CurrentQRGenerations(qrg, id)),
                                FALSE, FALSE)
                   ELSE Done(options.res) IN
       /\ IF t.flag THEN logoutOk => inst[i].readyState = CLOSED ELSE logoutOk
       /\ Landed(t) => deleteOk
       /\ Commit(DestroyFinally(sessions, id, ok), DestroyFinally(retries, id, ok), qrg,
                 IF deleteOk /\ ~Landed(t) THEN records \ {id} ELSE records,
                 [inst EXCEPT ![i].destroyed = TRUE],
                 (pending (-) SetToBag({t})) (+) stop)
       /\ closeRun' = [closeRun EXCEPT ![id] = 0]
       /\ last' = [NoLast EXCEPT !.op = "destroy", !.id = id, !.ok = ok,
                                 !.again = inst[i].destroyed,
                                 !.replaced = Get(sessions, id, i) # i,
                                 !.attempts = IF Get(sessions, id, i) # i
                                              THEN Get(retries, id, 0) ELSE 0,
                                 !.raised = DestroyRaises(logoutOk, deleteOk),
                                 !.before = options.res]
       /\ options' = [options EXCEPT !.res = sent.res]
    /\ UNCHANGED <<rendered, scheduled, openHandled>>

\* ------------------------------------------------------------------ Next
Next ==
    \/ \E id \in Ids : RequestCreate(id)
    \/ \E id \in Ids : RequestDelete(id)
    \/ \E t \in Tasks : TimerFire(t)
    \/ \E t \in Tasks, ok \in BOOLEAN : CreateFinish(t, ok)
    \/ \E i \in Slots : EvQR(i)
    \/ \E t \in Tasks, ok \in BOOLEAN : RenderDone(t, ok)
    \/ \E i \in Slots : EvOpen(i)
    \/ \E i \in Slots, reason \in Reasons : EvClose(i, reason)
    \/ \E t \in Tasks, logoutOk \in BOOLEAN, deleteOk \in BOOLEAN :
          DestroyFinish(t, logoutOk, deleteOk)

Spec == Init /\ [][Next]_vars

\* One add request has been accepted and nothing else is ever asked for:
\* from here only the transport, the timers and the awaited calls act.
InitRequested ==
    /\ envMaxRetries = ConfiguredMaxRetries
    /\ sessions = EmptyMap
    /\ retries = EmptyMap
    /\ QRGenerations = EmptyMap
    /\ records = {}
    /\ config = [id \in Ids |-> NoData]
    /\ inst = [i \in 1..MaxInst |-> FreeSlot]
    /\ \E id \in Ids : pending = SetToBag({CreateTask(id, TRUE)})
    /\ rendered = [id \in Ids |-> 0]
    /\ scheduled = [id \in Ids |-> 0]
    /\ closeRun = [id \in Ids |-> 0]
    /\ openHandled = [id \in Ids |-> FALSE]
    /\ last = NoLast
    /\ bus = Subscribed
    /\ options = Detached
    /\ StoreIdle

NextUnattended ==
    \/ \E t \in Tasks : TimerFire(t)
    \/ \E t \in Tasks, ok \in BOOLEAN : CreateFinish(t, ok)
    \/ \E i \in Slots : EvQR(i)
    \/ \E t \in Tasks, ok \in BOOLEAN : RenderDone(t, ok)
    \/ \E i \in Slots : EvOpen(i)
    \/ \E i \in Slots, reason \in Reasons : EvClose(i, reason)
    \/ \E t \in Tasks, logoutOk \in BOOLEAN, deleteOk \in BOOLEAN :
          DestroyFinish(t, logoutOk, deleteOk)

SpecUnattended == InitRequested /\ [][NextUnattended]_vars

\* The same, with MAX_RECONNECT_RETRIES=-1 in the environment.
UnlimitedSentinel == 0 - 1

InitUnlimited ==
    /\ envMaxRetries = UnlimitedSentinel
    /\ sessions = EmptyMap
    /\ retries = EmptyMap
    /\ QRGenerations = EmptyMap
    /\ records = {}
    /\ config = [id \in Ids |-> NoData]
    /\ inst = [i \in 1..MaxInst |-> FreeSlot]
    /\ \E id \in Ids : pending = SetToBag({CreateTask(id, TRUE)})
    /\ rendered = [id \in Ids |-> 0]
    /\ scheduled = [id \in Ids |-> 0]
    /\ closeRun = [id \in Ids |-> 0]
    /\ openHandled = [id \in Ids |-> FALSE]
    /\ last = NoLast
    /\ bus = Subscribed
    /\ options = Detached
    /\ StoreIdle

SpecUnlimited == InitUnlimited /\ [][NextUnattended]_vars

\* --------------------------------------------- specification: faults
\* process.on('uncaughtException', ...) of bindEvents (first revision of
\* session.ts): the handler of a constructed Session logs the error and
\* calls this.reconnect(), whatever the state of its socket.
UncaughtException(i) ==
    /\ Used(i)
    /\ Room(1)
    /\ Commit(sessions, retries, QRGenerations, records, inst,
              pending (+) SetToBag({TimerTask(inst[i].sessionId, RECONNECT_INTERVAL)}))
    /\ last' = [NoLast EXCEPT !.op = "uncaughtException", !.id = inst[i].sessionId]
    /\ UNCHANGED <<rendered, scheduled, closeRun, openHandled, options>>

NextFaults ==
    \/ NextUnattended
    \/ \E i \in Slots : UncaughtException(i)

SpecFaults == InitRequested /\ [][NextFaults]_vars

\* ------------------------------------------- specification: session update
\* controllers/session.ts update, up to its await: Session.get(sessionId)!
\* and the prisma.session.update of the record with the options of the body.
UpdateTask(id, i, body) == Task("update", id, i, 0, body.readIncomingMessages)
UpdateBodies == [readIncomingMessages : BOOLEAN]

RequestUpdate(id, body) ==
    /\ Has(sessions, id)
    /\ Room(1)
    /\ Commit(sessions, retries, QRGenerations, records, inst,
              pending (+) SetToBag({UpdateTask(id, sessions[id], body)}))
    /\ last' = NoLast
    /\ UNCHANGED <<rendered, scheduled, closeRun, openHandled, options>>

\* The update of the record settles.  Rejected (always when the record is
\* not there): the catch answers 500.  Fulfilled: the record holds the data
\* of the body and session.socket.end(restartRequired) closes the socket of
\* the Session read before the await, whose connection.update handler runs
\* handleConnectionClose; end() on a closed socket does nothing.
UpdateSettled(t, ok) ==
    /\ t \in Tasks /\ t.kind = "update"
    /\ ok => t.id \in records
    /\ LET pend == pending (-) SetToBag({t})
           write == Put(EmptyMap, t.id, StringifyBody([readIncomingMessages |-> t.flag])) IN
       IF ok /\ inst[t.inst].readyState # CLOSED
       THEN ConnectionClosed(t.inst, "restartRequired", pend, write)
       ELSE /\ Persist(sessions, retries, QRGenerations, records, inst, pend,
                       IF ok THEN write ELSE EmptyMap)
            /\ last' = [NoLast EXCEPT !.op = "update", !.id = t.id, !.ok = ok]
            /\ UNCHANGED <<rendered, scheduled, closeRun, openHandled, options>>

NextUpdate ==
    \/ \E id \in Ids : RequestCreate(id)
    \/ \E t \in Tasks, ok \in BOOLEAN : CreateFinish(t, ok)
    \/ \E id \in Ids, body \in UpdateBodies : RequestUpdate(id, body)
    \/ \E t \in Tasks, ok \in BOOLEAN : UpdateSettled(t, ok)
    \/ \E t \in Tasks : TimerFire(t)
    \/ \E i \in Slots : EvOpen(i)
    \/ \E i \in Slots, reason \in Reasons : EvClose(i, reason)
    \/ \E t \in Tasks, logoutOk \in BOOLEAN, deleteOk \in BOOLEAN :
          DestroyFinish(t, logoutOk, deleteOk)

SpecUpdate == Init /\ [][NextUpdate]_vars

\* ------------------------------------------------ specification: races
\* Requests, timers and closes for one id, with room for two Session
\* objects: the one the registry holds and one it has replaced.
InitRace ==
    /\ envMaxRetries = ConfiguredMaxRetries
    /\ sessions = EmptyMap
    /\ retries = EmptyMap
    /\ QRGenerations = EmptyMap
    /\ records = {}
    /\ config = [id \in Ids |-> NoData]
    /\ inst = [i \in 1..MaxRacers |-> FreeSlot]
    /\ pending = EmptyBag
    /\ rendered = [id \in Ids |-> 0]
    /\ scheduled = [id \in Ids |-> 0]
    /\ closeRun = [id \in Ids |-> 0]
    /\ openHandled = [id \in Ids |-> FALSE]
    /\ last = NoLast
    /\ bus = Subscribed
    /\ options = Detached
    /\ StoreIdle

\* prisma.session.deleteMany({ where: { sessionId } }) of a destroy in
\* progress is carried out by storage; the Promise.all of destroy settles
\* later, and other callbacks may run in between.
DeleteLanded(t) ==
    /\ t \in Tasks /\ t.kind = "destroy" /\ ~Landed(t)
    /\ Commit(sessions, retries, QRGenerations, records \ {t.id}, inst,
              (pending (-) SetToBag({t})) (+) SetToBag({LandedTask(t)}))
    /\ last' = [NoLast EXCEPT !.op = "deleteMany", !.id = t.id]
    /\ UNCHANGED <<rendered, scheduled, closeRun, openHandled, options>>

NextRace ==
    \/ \E id \in Ids : RequestCreate(id)
    \/ \E id \in Ids : RequestDelete(id)
    \/ \E t \in Tasks : TimerFire(t)
    \/ \E t \in Tasks, ok \in BOOLEAN : CreateFinish(t, ok)
    \/ \E i \in Slots, reason \in Reasons : EvClose(i, reason)
    \/ \E t \in Tasks : DeleteLanded(t)
    \/ \E t \in Tasks, logoutOk \in BOOLEAN, deleteOk \in BOOLEAN :
          DestroyFinish(t, logoutOk, deleteOk)

SpecRace == InitRace /\ [][NextRace]_vars

\* ------------------------------------------ specification: interactive
\* One add or addSSE request has been accepted, with its response attached
\* to the options, and the session asks for a QR.
InitInteractive ==
    /\ envMaxRetries = ConfiguredMaxRetries
    /\ sessions = EmptyMap
    /\ retries = EmptyMap
    /\ QRGenerations = EmptyMap
    /\ records = {}
    /\ config = [id \in Ids |-> NoData]
    /\ inst = [i \in 1..MaxInst |-> FreeSlot]
    /\ \E id \in Ids : pending = SetToBag({CreateTask(id, TRUE)})
    /\ rendered = [id \in Ids |-> 0]
    /\ scheduled = [id \in Ids |-> 0]
    /\ closeRun = [id \in Ids |-> 0]
    /\ openHandled = [id \in Ids |-> FALSE]
    /\ last = NoLast
    /\ bus = Subscribed
    /\ \E r \in {PlainResponse, StreamResponse} :
          options = [res |-> r, SSE |-> r.headersSent, usePairingCode |-> FALSE,
                     readIncomingMessages |-> FALSE]
    /\ StoreIdle

SpecInteractive == InitInteractive /\ [][NextUnattended]_vars

\* ---------------------------------------------- handleConnectionUpdate,
\* pairing-code branch.  Every connection.update of a session that has no
\* account yet enters it: the handler awaits the next update that carries a
\* qr, then awaits requestPairingCode, then answers.
WaitTask(id, i) == Task("wait", id, i, 0, FALSE)
CodeTask(id, i) == Task("code", id, i, 0, FALSE)

\* The handlers parked in waitForConnectionUpdate resume when an update
\* with a qr is delivered: each calls requestPairingCode and awaits it.
Resumed(pend, id, i) ==
    LET n == CopiesIn(WaitTask(id, i), pend) IN
    IF n = 0 THEN pend
    ELSE (pend (-) [t \in {WaitTask(id, i)} |-> n]) (+) [t \in {CodeTask(id, i)} |-> n]

\* connection.update, neither open nor close, with or without a qr: the
\* handler stores the update and parks in waitForConnectionUpdate.
PairingUpdate(i, qr) ==
    /\ Used(i) /\ inst[i].readyState \in {CONNECTING, OPEN}
    /\ PairingBranch(i)
    /\ Room(1)
    /\ LET id == inst[i].sessionId
           pend == IF qr THEN Resumed(pending, id, i) ELSE pending IN
       /\ Commit(sessions, retries, QRGenerations, records,
                 [inst EXCEPT ![i].readyState = OPEN],
                 pend (+) SetToBag({WaitTask(id, i)}))
       /\ openHandled' = [openHandled EXCEPT ![id] = FALSE]
       /\ last' = NoLast
    /\ UNCHANGED <<rendered, scheduled, closeRun, options>>

\* What requestPairingCode can give
CodeOutcomes == {"code", "undefined", "rejected"}

\* requestPairingCode settles.  With a response that has sent nothing and a
\* code, the code is the answer and the handler returns; otherwise the
\* failure is logged, response(res, 500, ...) is called on whatever res is,
\* and the handler goes on to its QR part (qr: the update stored last
\* carries one).
PairingCodeSettled(t, outcome, qr) ==
    /\ t \in Tasks /\ t.kind = "code"
    /\ LET i == t.inst
           id == t.id
           r == options.res
           returned == outcome = "code" /\ r.attached /\ ~r.headersSent
           answer == IF outcome = "rejected" THEN Threw(r)
                     ELSE IF returned THEN Response(r, "data")
                     ELSE Response(r, "error")
           goesOn == outcome # "rejected" /\ ~returned /\ ~answer.threw
           cur == CurrentQRGenerations(QRGenerations, id)
           new == IF ~goesOn THEN EmptyBag
                  ELSE IF qr THEN SetToBag({RenderTask(id, i, cur)})
                  ELSE LimitTasks(QRGenerations, id, i, inst[i].readyState) IN
       /\ cur < QRCountCap
       /\ Commit(sessions, retries, QRGenerations, records, inst,
                 (pending (-) SetToBag({t})) (+) new)
       /\ options' = [options EXCEPT !.res = answer.res]
       /\ last' = [NoLast EXCEPT !.op = "pairing", !.id = id,
                                 !.ok = outcome = "code",
                                 !.raised = answer.threw, !.before = r]
    /\ UNCHANGED <<rendered, scheduled, closeRun, openHandled>>

\* -------------------------------------------------- specification: pairing
\* A session whose options ask for a pairing code is being created: by an
\* add request (res attached) or by init() at boot (no res).  The phone
\* never completes the pairing, so the session stays without an account.
InitPairing ==
    /\ envMaxRetries = ConfiguredMaxRetries
    /\ sessions = EmptyMap
    /\ retries = EmptyMap
    /\ QRGenerations = EmptyMap
    /\ records = {}
    /\ config = [id \in Ids |-> NoData]
    /\ inst = [i \in 1..MaxInst |-> FreeSlot]
    /\ rendered = [id \in Ids |-> 0]
    /\ scheduled = [id \in Ids |-> 0]
    /\ closeRun = [id \in Ids |-> 0]
    /\ openHandled = [id \in Ids |-> FALSE]
    /\ last = NoLast
    /\ bus = Subscribed
    /\ \E r \in {NoResponse, PlainResponse} :
          /\ options = [res |-> r, SSE |-> FALSE, usePairingCode |-> TRUE,
                        readIncomingMessages |-> FALSE]
          /\ \E id \in Ids : pending = SetToBag({CreateTask(id, r.attached)})
    /\ StoreIdle

NextPairing ==
    \/ \E t \in Tasks, ok \in BOOLEAN : CreateFinish(t, ok)
    \/ \E i \in Slots, qr \in BOOLEAN : PairingUpdate(i, qr)
    \/ \E t \in Tasks, outcome \in CodeOutcomes, qr \in BOOLEAN :
          PairingCodeSettled(t, outcome, qr)
    \/ \E t \in Tasks, ok \in BOOLEAN : RenderDone(t, ok)
    \/ \E i \in Slots, reason \in Reasons : EvClose(i, reason)
    \/ \E t \in Tasks : TimerFire(t)
    \/ \E t \in Tasks, logoutOk \in BOOLEAN, deleteOk \in BOOLEAN :
          DestroyFinish(t, logoutOk, deleteOk)

SpecPairing == InitPairing /\ [][NextPairing]_vars

\* ================================================================ webhook
\* services/webhook.ts.  A send is a record in `hooks`: the axios.post in
\* flight (phase "post") or the delay before the next attempt ("delay").
WEBHOOK_TRIES == 3          \* let tries = 3
WEBHOOK_DELAY == 5000       \* await delay(5000)
PostCap == WEBHOOK_TRIES + 2
MaxHooks == 2               \* webhook sends in progress at once

WebhookOnly(events) == [enabled |-> TRUE, all |-> FALSE, only |-> events, url |-> TRUE]
WebhookNoUrl == [enabled |-> TRUE, all |-> TRUE, only |-> {}, url |-> FALSE]
WebhookConfigs == {WebhookOff, WebhookAll, WebhookNoUrl, WebhookOnly({"chats.update"})}

SessionIdle ==
    /\ envMaxRetries = ConfiguredMaxRetries
    /\ sessions = EmptyMap
    /\ retries = EmptyMap
    /\ QRGenerations = EmptyMap
    /\ records = {}
    /\ config = [id \in Ids |-> NoData]
    /\ inst = [i \in 1..MaxInst |-> FreeSlot]
    /\ pending = EmptyBag
    /\ rendered = [id \in Ids |-> 0]
    /\ scheduled = [id \in Ids |-> 0]
    /\ closeRun = [id \in Ids |-> 0]
    /\ openHandled = [id \in Ids |-> FALSE]
    /\ last = NoLast
    /\ bus = Subscribed
    /\ options = Detached

\* requestWebhook entered: tries = 3, then axios.post is awaited; `posts`
\* counts the POSTs made for this send so far.
RequestWebhook(sessionId, event, posts) ==
    [sessionId |-> sessionId, event |-> event, posts |-> posts,
     tries |-> WEBHOOK_TRIES, phase |-> "post", after |-> WEBHOOK_DELAY]

\* sendWebhook(options, data) up to its await: the sends it starts.
SendWebhook(cfg, sessionId, event) ==
    IF ~cfg.enabled THEN EmptyBag
    ELSE IF ~cfg.all /\ event \notin cfg.only THEN EmptyBag
    ELSE IF ~cfg.url THEN EmptyBag
    ELSE SetToBag({RequestWebhook(sessionId, event, 1)})

HookRoom(new) == BagCardinality(hooks) + BagCardinality(new) <= MaxHooks

\* try / catch of sendWebhook and of requestWebhook: nothing is rethrown.
SendWebhookRaises(postOk) == FALSE

\* axios.post settles.  Fulfilled: requestWebhook returns and every frame
\* below it resumes after its await.  Rejected: the catch block logs and,
\* with the tries of this frame > 0, awaits the delay.
HookPost(h, ok) ==
    /\ h \in BagToSet(hooks) /\ h.phase = "post"
    /\ hooks' = IF ok \/ ~(h.tries > 0)
                THEN hooks (-) SetToBag({h})
                ELSE (hooks (-) SetToBag({h})) (+) SetToBag({[h EXCEPT !.phase = "delay"]})
    /\ note' = [op |-> "post", sessionId |-> h.sessionId, event |-> h.event,
                posts |-> h.posts, ok |-> ok, raised |-> SendWebhookRaises(ok)]
    /\ UNCHANGED <<webhook, mirror, jobs, boot, replay>>
    /\ UNCHANGED sessionVars

\* The delay is over: await requestWebhook(url, data, axiosConfig), a new
\* frame with its own tries.
HookRetry(h) ==
    /\ h \in BagToSet(hooks) /\ h.phase = "delay"
    /\ h.posts < PostCap
    /\ hooks' = (hooks (-) SetToBag({h}))
                (+) SetToBag({RequestWebhook(h.sessionId, h.event, h.posts + 1)})
    /\ note' = [op |-> "retry", sessionId |-> h.sessionId, event |-> h.event,
                posts |-> h.posts + 1, ok |-> TRUE, raised |-> FALSE]
    /\ UNCHANGED <<webhook, mirror, jobs, boot, replay>>
    /\ UNCHANGED sessionVars

\* ================================================================== store
\* storeHandlers/*.ts over the Prisma tables.  A JavaScript value of an
\* event payload is tagged: the property is missing or undefined, is null,
\* or holds a value.
Undefined(d) == [k |-> "undefined", v |-> d]
JsNull(d) == [k |-> "null", v |-> d]
Val(x) == [k |-> "val", v |-> x]

\* !x for a string or number property
Falsy(x, zero) == x.k # "val" \/ x.v = zero

\* transformPrisma(data): properties that are undefined or null are deleted
\* (numbers and Long become numbers, which they are here)
TransformPrisma(data) ==
    [f \in DOMAIN data |-> IF data[f].k = "null" THEN Undefined(data[f].v) ELSE data[f]]

\* where: { sessionId_id: { id, sessionId } }
Key(sessionId, id) == <<sessionId, id>>

\* The row Prisma creates: a column that is not supplied is NULL.
CreateRow(data) ==
    [f \in DOMAIN data |-> IF data[f].k = "undefined" THEN JsNull(data[f].v) ELSE data[f]]

\* The row after a Prisma update: a property that is undefined is left alone.
UpdateRow(row, data) ==
    [f \in DOMAIN row |-> IF f \in DOMAIN data /\ data[f].k # "undefined"
                          THEN data[f] ELSE row[f]]

\* prisma.<table>.upsert({ create, update, where })
Upsert(tb, key, create, update) ==
    IF Has(tb, key) THEN Put(tb, key, UpdateRow(tb[key], update))
    ELSE Put(tb, key, CreateRow(create))

\* Mutant of WriteUpdate: a row that is not there is created.
WriteUpdateOrCreate(tb, key, data) == Upsert(tb, key, data, data)

\* prisma.<table>.update({ data, where }) on a table; without a row of the
\* key nothing is written (the call rejects with P2025).
WriteUpdate(tb, key, data) ==
    IF Has(tb, key) THEN Put(tb, key, UpdateRow(tb[key], data)) ELSE tb

\* A handler invocation: the items still to process, where the handler
\* stands in its loop, what it found, and the upsert type of messages.upsert.
Job(kind, sessionId, todo, phase) ==
    [kind |-> kind, sessionId |-> sessionId, todo |-> todo, phase |-> phase,
     seen |-> {}, type |-> ""]

Jobs == BagToSet(jobs)
JobRoom(new, limit) == BagCardinality(jobs) + BagCardinality(new) <= limit
Take(j) == jobs (-) SetToBag({j})

\* The loop moves on to the next item, or the handler returns.
Advance(j, phase) ==
    IF Len(j.todo) <= 1 THEN Take(j)
    ELSE Take(j) (+) SetToBag({[j EXCEPT !.todo = Tail(@), !.phase = phase, !.seen = {}]})

\* The handler started by an event, unless it returns before its first await.
Started(j) == IF j.todo = <<>> THEN EmptyBag ELSE SetToBag({j})

SetTable(t, tb) == [mirror EXCEPT ![t] = tb]

\* The (sessionId, id) keys of every table of the mirror
MirrorKeys(m) == [t \in Tables |-> DOMAIN m[t]]

SessionRest == /\ UNCHANGED <<webhook, boot>>
               /\ UNCHANGED sessionVars

StoreRest == /\ SessionRest
             /\ UNCHANGED replay

\* Mutant of AwaitsWebhook: the handler awaits sendWebhook(...).
AwaitsWebhookSend(j) ==
    \E h \in BagToSet(hooks) : h.sessionId = j.sessionId /\ h.event = j.kind

\* sendWebhook is called and not awaited: the handler goes on at once.
AwaitsWebhook(j) == FALSE

\* ------------------------------------------------------ storeHandlers/chat
\* Mutant of ChatUnread: a numeric unreadCount is always set.
ChatUnreadSet(stored, patch) ==
    IF patch.k = "val" THEN Val(patch.v) ELSE stored

\* unreadCount of chat.update: increment when positive, set otherwise,
\* untouched when it is not a number
ChatUnread(stored, patch) ==
    IF patch.k = "val"
    THEN IF patch.v > 0
         THEN IF stored.k = "val" THEN Val(stored.v + patch.v) ELSE stored
         ELSE Val(patch.v)
    ELSE stored

\* chats.update is emitted: webhook, then findUnique of the first update.
ChatsUpdate(sessionId, updates, limit) ==
    LET new == Started(Job("chats.update", sessionId, updates, "find"))
        sent == SendWebhook(webhook, sessionId, "chats.update") IN
    /\ JobRoom(new, limit) /\ HookRoom(sent)
    /\ jobs' = jobs (+) new
    /\ hooks' = hooks (+) sent
    /\ note' = [op |-> "chats.update", sessionId |-> sessionId]
    /\ UNCHANGED mirror
    /\ StoreRest

\* findUnique settles: with a row the update is awaited, without one the
\* loop goes to the next update.
ChatUpdateFound(j) ==
    /\ j \in Jobs /\ j.kind = "chats.update" /\ j.phase = "find"
    /\ ~AwaitsWebhook(j)
    /\ LET key == Key(j.sessionId, Head(j.todo).id) IN
       /\ jobs' = IF Has(mirror.chat, key)
                  THEN Take(j) (+) SetToBag({[j EXCEPT !.phase = "write"]})
                  ELSE Advance(j, "find")
       /\ note' = [op |-> "chat.find", sessionId |-> j.sessionId, id |-> key[2],
                   existed |-> Has(mirror.chat, key), by |-> j.kind, keys |-> MirrorKeys(mirror)]
    /\ UNCHANGED <<mirror, hooks>>
    /\ StoreRest

\* prisma.chat.update settles.  No row any more: P2025, the handler returns.
\* Another failure is logged and the loop goes on.
ChatUpdateWritten(j, ok) ==
    /\ j \in Jobs /\ j.kind = "chats.update" /\ j.phase = "write"
    /\ ~AwaitsWebhook(j)
    /\ LET key == Key(j.sessionId, Head(j.todo).id)
           data == TransformPrisma(Head(j.todo).data)
           existed == Has(mirror.chat, key)
           row == IF existed THEN mirror.chat[key] ELSE CreateRow(data)
           new == [UpdateRow(row, data) EXCEPT
                      !.unreadCount = ChatUnread(row.unreadCount, data.unreadCount)] IN
       /\ mirror' = IF existed /\ ok THEN SetTable("chat", Put(mirror.chat, key, new))
                    ELSE mirror
       /\ jobs' = IF existed THEN Advance(j, "find") ELSE Take(j)
       /\ note' = [op |-> "chat.update", sessionId |-> j.sessionId, id |-> key[2],
                   existed |-> existed, ok |-> ok, before |-> row,
                   patch |-> Head(j.todo).data,
                   after |-> IF existed /\ ok THEN new ELSE row, by |-> j.kind, keys |-> MirrorKeys(mirror)]
    /\ UNCHANGED hooks
    /\ StoreRest

\* chats.phoneNumberShare is emitted: the handler only forwards the event.
ChatPhoneNumberShare(sessionId) ==
    LET sent == SendWebhook(webhook, sessionId, "chats.phoneNumberShare") IN
    /\ HookRoom(sent)
    /\ hooks' = hooks (+) sent
    /\ note' = [op |-> "chats.phoneNumberShare", sessionId |-> sessionId]
    /\ UNCHANGED <<mirror, jobs>>
    /\ StoreRest

\* chats.upsert is emitted: webhook, then every upsert is started at once
\* (Promise.any over the mapped array; an empty array rejects and is logged).
ChatsUpsert(sessionId, chats, limit) ==
    LET new == Started(Job("chats.upsert", sessionId, chats, "write"))
        sent == SendWebhook(webhook, sessionId, "chats.upsert") IN
    /\ JobRoom(new, limit) /\ HookRoom(sent)
    /\ jobs' = jobs (+) new
    /\ hooks' = hooks (+) sent
    /\ note' = [op |-> "chats.upsert", sessionId |-> sessionId]
    /\ UNCHANGED mirror
    /\ StoreRest

\* The n-th item of todo removed: one of the upserts started together settles.
Settle(j, n) ==
    IF Len(j.todo) <= 1 THEN Take(j)
    ELSE Take(j) (+) SetToBag({[j EXCEPT !.todo =
             SubSeq(j.todo, 1, n - 1) \o SubSeq(j.todo, n + 1, Len(j.todo))]})

\* One prisma.chat.upsert of a chats.upsert settles.
ChatUpserted(j, n, ok) ==
    /\ j \in Jobs /\ j.kind = "chats.upsert" /\ n \in 1..Len(j.todo)
    /\ ~AwaitsWebhook(j)
    /\ LET key == Key(j.sessionId, j.todo[n].id)
           data == TransformPrisma(j.todo[n].data) IN
       /\ mirror' = IF ok THEN SetTable("chat", Upsert(mirror.chat, key, data, data))
                    ELSE mirror
       /\ note' = [op |-> "chat.upsert", sessionId |-> j.sessionId, id |-> key[2],
                   existed |-> Has(mirror.chat, key), ok |-> ok]
    /\ jobs' = Settle(j, n)
    /\ UNCHANGED hooks
    /\ StoreRest

\* chats.delete is emitted: webhook, then deleteMany({ id: { in: ids } }).
ChatsDelete(sessionId, ids, limit) ==
    LET new == SetToBag({Job("chats.delete", sessionId, ids, "write")})
        sent == SendWebhook(webhook, sessionId, "chats.delete") IN
    /\ JobRoom(new, limit) /\ HookRoom(sent)
    /\ jobs' = jobs (+) new
    /\ hooks' = hooks (+) sent
    /\ note' = [op |-> "chats.delete", sessionId |-> sessionId]
    /\ UNCHANGED mirror
    /\ StoreRest

\* ids of a payload as a set
Range(seq) == {seq[n] : n \in 1..Len(seq)}

\* deleteMany settles: the where clause names ids only.
ChatDeleted(j, ok) ==
    /\ j \in Jobs /\ j.kind = "chats.delete"
    /\ ~AwaitsWebhook(j)
    /\ LET gone == {key \in DOMAIN mirror.chat : key[2] \in Range(j.todo)} IN
       mirror' = IF ok
                 THEN SetTable("chat", [key \in DOMAIN mirror.chat \ gone |-> mirror.chat[key]])
                 ELSE mirror
    /\ jobs' = Take(j)
    /\ note' = [op |-> "chat.delete", sessionId |-> j.sessionId, ok |-> ok,
                keys |-> MirrorKeys(mirror)]
    /\ UNCHANGED hooks
    /\ StoreRest

\* chatHandler.set up to its first await: webhook, nothing more for an empty
\* list, else the transaction is opened and findMany awaited.
ChatSetStart(sessionId, chats) ==
    Started(Job("chats.set", sessionId, chats, "find"))

\* findMany of the transaction settles: existingIds.
ChatSetFound(j) ==
    /\ j \in Jobs /\ j.kind = "chats.set" /\ j.phase = "find"
    /\ ~AwaitsWebhook(j)
    /\ jobs' = Take(j) (+) SetToBag({[j EXCEPT !.phase = "create", !.seen =
                  {c.id : c \in {x \in Range(j.todo) :
                                    Has(mirror.chat, Key(j.sessionId, x.id))}}]})
    /\ note' = [op |-> "chat.findMany", sessionId |-> j.sessionId]
    /\ UNCHANGED <<mirror, hooks>>
    /\ StoreRest

\* Mutant of ChatsToCreate: createMany is given the first of them only.
ChatsToCreateOne(j) ==
    LET missing == SelectSeq(j.todo, LAMBDA c : c.id \notin j.seen) IN
    IF missing = <<>> THEN <<>> ELSE <<Head(missing)>>

\* The chats createMany is given: those whose id was not found.
ChatsToCreate(j) == SelectSeq(j.todo, LAMBDA c : c.id \notin j.seen)

\* createMany violates the unique index (sessionId, id): a row of the key
\* exists by now, or the data names a key twice.
UniqueViolation(tb, sessionId, items) ==
    \/ \E n \in 1..Len(items) : Has(tb, Key(sessionId, items[n].id))
    \/ \E n, m \in 1..Len(items) : n # m /\ items[n].id = items[m].id

RECURSIVE CreateMany(_, _, _)
CreateMany(tb, sessionId, items) ==
    IF items = <<>> THEN tb
    ELSE CreateMany(Put(tb, Key(sessionId, Head(items).id),
                        CreateRow(TransformPrisma(Head(items).data))),
                    sessionId, Tail(items))

\* createMany settles and the transaction commits, or it fails and the
\* transaction is rolled back.
ChatSetCreated(j, ok) ==
    /\ j \in Jobs /\ j.kind = "chats.set" /\ j.phase = "create"
    /\ ~AwaitsWebhook(j)
    /\ LET data == ChatsToCreate(j)
           done == ok /\ ~UniqueViolation(mirror.chat, j.sessionId, data) IN
       /\ mirror' = IF done THEN SetTable("chat", CreateMany(mirror.chat, j.sessionId, data))
                    ELSE mirror
       /\ note' = [op |-> "chat.createMany", sessionId |-> j.sessionId, ok |-> done]
    /\ jobs' = Take(j)
    /\ UNCHANGED hooks
    /\ StoreRest

\* --------------------------------------------------- storeHandlers/contact
\* Mutant of ContactData: the data is written as it came.
ContactDataKept(data) == data

\* if (!data.name) delete update.name; if (!data.notify) delete update.notify
\* (update is the same object as data, so create loses them as well)
ContactData(data) ==
    [f \in DOMAIN data |-> IF Falsy(data[f], "") THEN Undefined(data[f].v) ELSE data[f]]

\* contactHandler.set up to its first await: every upsert is started at once.
ContactSetStart(sessionId, contacts) ==
    Started(Job("contacts.set", sessionId, contacts, "write"))

\* contacts.upsert is emitted: every upsert is started at once.
ContactsUpsert(sessionId, contacts, limit) ==
    LET new == Started(Job("contacts.upsert", sessionId, contacts, "write")) IN
    /\ JobRoom(new, limit)
    /\ jobs' = jobs (+) new
    /\ note' = [op |-> "contacts.upsert", sessionId |-> sessionId]
    /\ UNCHANGED <<mirror, hooks>>
    /\ StoreRest

\* One prisma.contact.upsert of a set or an upsert settles.
ContactUpserted(j, n, ok) ==
    /\ j \in Jobs /\ j.kind \in {"contacts.set", "contacts.upsert"}
    /\ n \in 1..Len(j.todo)
    /\ ~AwaitsWebhook(j)
    /\ LET key == Key(j.sessionId, j.todo[n].id)
           data == ContactData(TransformPrisma(j.todo[n].data))
           existed == Has(mirror.contact, key)
           new == Upsert(mirror.contact, key, data, data) IN
       /\ mirror' = IF ok THEN SetTable("contact", new) ELSE mirror
       /\ note' = [op |-> "contact.write", sessionId |-> j.sessionId, id |-> key[2],
                   existed |-> existed, ok |-> ok, by |-> j.kind, keys |-> MirrorKeys(mirror),
                   before |-> IF existed THEN mirror.contact[key] ELSE CreateRow(data),
                   patch |-> j.todo[n].data]
    /\ jobs' = Settle(j, n)
    /\ UNCHANGED hooks
    /\ StoreRest

\* contacts.update is emitted: findUnique of the first update is awaited.
ContactsUpdate(sessionId, updates, limit) ==
    LET new == Started(Job("contacts.update", sessionId, updates, "find")) IN
    /\ JobRoom(new, limit)
    /\ jobs' = jobs (+) new
    /\ note' = [op |-> "contacts.update", sessionId |-> sessionId]
    /\ UNCHANGED <<mirror, hooks>>
    /\ StoreRest

\* findUnique settles: with a row the update is awaited, without one the
\* loop goes to the next update.
ContactUpdateFound(j) ==
    /\ j \in Jobs /\ j.kind = "contacts.update" /\ j.phase = "find"
    /\ LET key == Key(j.sessionId, Head(j.todo).id) IN
       /\ jobs' = IF Has(mirror.contact, key)
                  THEN Take(j) (+) SetToBag({[j EXCEPT !.phase = "write"]})
                  ELSE Advance(j, "find")
       /\ note' = [op |-> "contact.find", sessionId |-> j.sessionId, id |-> key[2],
                   existed |-> Has(mirror.contact, key), by |-> j.kind, keys |-> MirrorKeys(mirror)]
    /\ UNCHANGED <<mirror, hooks>>
    /\ StoreRest

\* prisma.contact.update settles.  No row any more: P2025, the handler
\* returns.  Another failure is logged and the loop goes on.
ContactUpdateWritten(j, ok) ==
    /\ j \in Jobs /\ j.kind = "contacts.update" /\ j.phase = "write"
    /\ LET key == Key(j.sessionId, Head(j.todo).id)
           data == ContactData(TransformPrisma(Head(j.todo).data))
           existed == Has(mirror.contact, key)
           row == IF existed THEN mirror.contact[key] ELSE CreateRow(data) IN
       /\ mirror' = IF ok THEN SetTable("contact", WriteUpdate(mirror.contact, key, data))
                    ELSE mirror
       /\ jobs' = IF existed THEN Advance(j, "find") ELSE Take(j)
       /\ note' = [op |-> "contact.write", sessionId |-> j.sessionId, id |-> key[2],
                   existed |-> existed, ok |-> ok, by |-> j.kind, keys |-> MirrorKeys(mirror), before |-> row,
                   patch |-> Head(j.todo).data]
    /\ UNCHANGED hooks
    /\ StoreRest

\* --------------------------------------------------- storeHandlers/message
\* jidNormalizedUser: the device part of a user jid is dropped.
JidNormalizedUser(jid) == IF jid = "c1:9" THEN "c1" ELSE jid

\* where: { sessionId_remoteJid_id: { remoteJid, id, sessionId } }
MessageKey(sessionId, message) ==
    <<sessionId, JidNormalizedUser(message.remoteJid), message.id>>

\* messageHandler.set up to its first await: the first upsert is awaited.
MessageSetStart(sessionId, messages) ==
    Started(Job("messages.set", sessionId, messages, "write"))

\* The awaited prisma.message.upsert of a set settles: the loop goes on, or
\* the rejection leaves the loop (the try is around it).
MessageSetWritten(j, ok) ==
    /\ j \in Jobs /\ j.kind = "messages.set"
    /\ ~AwaitsWebhook(j)
    /\ LET key == MessageKey(j.sessionId, Head(j.todo))
           data == TransformPrisma(Head(j.todo).data) IN
       /\ mirror' = IF ok THEN SetTable("message", Upsert(mirror.message, key, data, data))
                    ELSE mirror
       /\ note' = [op |-> "message.write", sessionId |-> j.sessionId,
                   existed |-> Has(mirror.message, key), ok |-> ok, by |-> j.kind,
                   keys |-> MirrorKeys(mirror), rest |-> Tail(j.todo)]
    /\ jobs' = IF ok THEN Advance(j, "write") ELSE Take(j)
    /\ UNCHANGED hooks
    /\ StoreRest

\* Mutant of ShouldEmitChat: the upsert type is not looked at.
ShouldEmitChatAnyType(type, chatExists) == ~chatExists

\* if (type === 'notify' && !chatExists)
ShouldEmitChat(type, chatExists) == type = "notify" /\ ~chatExists

\* messages.upsert is emitted: webhook, then the first upsert is awaited.
MessagesUpsert(sessionId, messages, type, limit) ==
    LET new == Started([Job("messages.upsert", sessionId, messages, "write")
                           EXCEPT !.type = type])
        sent == SendWebhook(webhook, sessionId, "messages.upsert") IN
    /\ type \in {"append", "notify"}
    /\ JobRoom(new, limit) /\ HookRoom(sent)
    /\ jobs' = jobs (+) new
    /\ hooks' = hooks (+) sent
    /\ note' = [op |-> "messages.upsert", sessionId |-> sessionId]
    /\ UNCHANGED mirror
    /\ StoreRest

\* prisma.message.upsert settles: the count is awaited, or the rejection is
\* logged and the loop goes to the next message.
MessageUpsertWritten(j, ok) ==
    /\ j \in Jobs /\ j.kind = "messages.upsert" /\ j.phase = "write"
    /\ ~AwaitsWebhook(j)
    /\ LET key == MessageKey(j.sessionId, Head(j.todo))
           data == TransformPrisma(Head(j.todo).data) IN
       /\ mirror' = IF ok THEN SetTable("message", Upsert(mirror.message, key, data, data))
                    ELSE mirror
       /\ note' = [op |-> "message.write", sessionId |-> j.sessionId,
                   existed |-> Has(mirror.message, key), ok |-> ok, by |-> j.kind, keys |-> MirrorKeys(mirror)]
    /\ jobs' = IF ok THEN Take(j) (+) SetToBag({[j EXCEPT !.phase = "count"]})
               ELSE Advance(j, "write")
    /\ UNCHANGED hooks
    /\ StoreRest

\* prisma.chat.count settles.  A notify message of a conversation without a
\* Chat row emits chats.upsert, which runs chatHandler.upsert up to its first
\* await inside the emit (conversationTimestamp is not a column of the model).
MessageCounted(j, ok) ==
    /\ j \in Jobs /\ j.kind = "messages.upsert" /\ j.phase = "count"
    /\ LET jid == JidNormalizedUser(Head(j.todo).remoteJid)
           chatExists == Has(mirror.chat, Key(j.sessionId, jid))
           emitted == IF ok /\ ShouldEmitChat(j.type, chatExists)
                      THEN <<[id |-> jid, data |-> [unreadCount |-> Val(1)]]>>
                      ELSE <<>>
           new == Started(Job("chats.upsert", j.sessionId, emitted, "write"))
           sent == IF emitted = <<>> THEN EmptyBag
                   ELSE SendWebhook(webhook, j.sessionId, "chats.upsert") IN
       /\ jobs' = Advance(j, "write") (+) new
       /\ hooks' = hooks (+) sent
       /\ note' = [op |-> "message.count", sessionId |-> j.sessionId, id |-> jid,
                   existed |-> chatExists, ok |-> ok, by |-> j.kind, keys |-> MirrorKeys(mirror), type |-> j.type,
                   emitted |-> emitted]
    /\ UNCHANGED mirror
    /\ StoreRest

\* where: { id: key.id, remoteJid: key.remoteJid, sessionId } of the update,
\* receipt and reaction handlers: the jid is taken as it came.
FindKey(sessionId, item) == <<sessionId, item.remoteJid, item.id>>

\* messages.update, message-receipt.update or messages.reaction is emitted:
\* webhook, then the transaction of the first item is opened.
MessagesRevise(kind, sessionId, updates, limit) ==
    LET new == Started(Job(kind, sessionId, updates, "find"))
        sent == SendWebhook(webhook, sessionId, kind) IN
    /\ kind \in {"messages.update", "message-receipt.update", "messages.reaction"}
    /\ JobRoom(new, limit) /\ HookRoom(sent)
    /\ jobs' = jobs (+) new
    /\ hooks' = hooks (+) sent
    /\ note' = [op |-> kind, sessionId |-> sessionId]
    /\ UNCHANGED mirror
    /\ StoreRest

\* tx.message.findFirst settles: without a row the transaction returns and
\* the loop goes on; with one its userReceipt / reactions are kept.
MessageFound(j) ==
    /\ j \in Jobs /\ j.phase = "find"
    /\ j.kind \in {"messages.update", "message-receipt.update", "messages.reaction"}
    /\ ~AwaitsWebhook(j)
    /\ LET key == FindKey(j.sessionId, Head(j.todo))
           existed == Has(mirror.message, key)
           col == IF j.kind = "messages.reaction" THEN "reactions" ELSE "userReceipt"
           list == IF existed /\ mirror.message[key][col].k = "val"
                   THEN mirror.message[key][col].v ELSE <<>> IN
       /\ jobs' = IF existed
                  THEN Take(j) (+) SetToBag({[j EXCEPT !.phase = "write", !.seen = list]})
                  ELSE Advance(j, "find")
       /\ note' = [op |-> "message.find", sessionId |-> j.sessionId,
                   existed |-> existed, by |-> j.kind, keys |-> MirrorKeys(mirror)]
    /\ UNCHANGED <<mirror, hooks>>
    /\ StoreRest

\* tx.message.update of messages.update settles.  data is prevData overlaid
\* with the update, and the id and remoteJid columns are written from
\* data.key.  A rejection (no row, key taken, storage) is logged.
MessageUpdateWritten(j, ok) ==
    /\ j \in Jobs /\ j.kind = "messages.update" /\ j.phase = "write"
    /\ LET key == FindKey(j.sessionId, Head(j.todo))
           existed == Has(mirror.message, key)
           patch == TransformPrisma(Head(j.todo).data)
           data == IF existed THEN UpdateRow(mirror.message[key], patch)
                   ELSE CreateRow(patch)
           moved == IF existed /\ data.key.k = "val"
                    THEN <<j.sessionId, data.key.v.remoteJid, data.key.v.id>> ELSE key
           taken == moved # key /\ Has(mirror.message, moved)
           done == ok /\ existed /\ ~taken IN
       /\ mirror' = IF done
                    THEN SetTable("message", Put(Delete(mirror.message, key), moved, data))
                    ELSE mirror
       /\ note' = [op |-> "message.update", sessionId |-> j.sessionId,
                   existed |-> existed, ok |-> done, by |-> j.kind, keys |-> MirrorKeys(mirror)]
    /\ jobs' = Advance(j, "find")
    /\ UNCHANGED hooks
    /\ StoreRest

\* the receipt of receipt.userJid replaced, or the receipt pushed
Receipts(userReceipt, receipt) ==
    SelectSeq(userReceipt, LAMBDA m : m.userJid # receipt.userJid) \o <<receipt>>

\* getKeyAuthor(key); a missing participant or remoteJid is ""
GetKeyAuthor(key) ==
    IF key.fromMe THEN "me"
    ELSE IF key.participant # "" THEN key.participant ELSE key.remoteJid

\* the reactions of other authors, and the new one when it has a text
Reactions(reactions, reaction) ==
    SelectSeq(reactions, LAMBDA r : GetKeyAuthor(r.key) # GetKeyAuthor(reaction.key))
      \o (IF reaction.text # "" THEN <<reaction>> ELSE <<>>)

\* tx.message.update of a receipt or a reaction settles.
MessageListWritten(j, ok) ==
    /\ j \in Jobs /\ j.phase = "write"
    /\ j.kind \in {"message-receipt.update", "messages.reaction"}
    /\ LET key == FindKey(j.sessionId, Head(j.todo))
           existed == Has(mirror.message, key)
           col == IF j.kind = "messages.reaction" THEN "reactions" ELSE "userReceipt"
           entry == IF j.kind = "messages.reaction" THEN Head(j.todo).reaction
                    ELSE Head(j.todo).receipt
           data == IF j.kind = "messages.reaction"
                   THEN [reactions |-> Val(Reactions(j.seen, entry))]
                   ELSE [userReceipt |-> Val(Receipts(j.seen, entry))] IN
       /\ mirror' = IF ok THEN SetTable("message", WriteUpdate(mirror.message, key, TransformPrisma(data)))
                    ELSE mirror
       /\ note' = [op |-> "message.update", sessionId |-> j.sessionId,
                   existed |-> existed, ok |-> ok /\ existed, by |-> j.kind, keys |-> MirrorKeys(mirror),
                   key |-> key, entry |-> entry,
                   before |-> IF existed /\ mirror.message[key][col].k = "val"
                              THEN mirror.message[key][col].v ELSE <<>>]
    /\ jobs' = Advance(j, "find")
    /\ UNCHANGED hooks
    /\ StoreRest

\* messages.delete is emitted: webhook, then deleteMany is awaited.
MessagesDelete(sessionId, item, limit) ==
    LET new == SetToBag({Job("messages.delete", sessionId, <<item>>, "write")})
        sent == SendWebhook(webhook, sessionId, "messages.delete") IN
    /\ JobRoom(new, limit) /\ HookRoom(sent)
    /\ jobs' = jobs (+) new
    /\ hooks' = hooks (+) sent
    /\ note' = [op |-> "messages.delete", sessionId |-> sessionId]
    /\ UNCHANGED mirror
    /\ StoreRest

\* The rows deleteMany removes: all of item.jid, or those of the listed ids
\* under the remoteJid of the first key (no key: a TypeError, logged).
MessagesGone(tb, sessionId, item) ==
    IF item.all
    THEN {key \in DOMAIN tb : key[1] = sessionId /\ key[2] = item.jid}
    ELSE IF item.keys = <<>> THEN {}
    ELSE {key \in DOMAIN tb : /\ key[1] = sessionId
                              /\ key[2] = item.keys[1].remoteJid
                              /\ key[3] \in {item.keys[n].id : n \in 1..Len(item.keys)}}

MessageDeleted(j, ok) ==
    /\ j \in Jobs /\ j.kind = "messages.delete"
    /\ ~AwaitsWebhook(j)
    /\ LET gone == MessagesGone(mirror.message, j.sessionId, Head(j.todo)) IN
       mirror' = IF ok
                 THEN SetTable("message",
                               [key \in DOMAIN mirror.message \ gone |-> mirror.message[key]])
                 ELSE mirror
    /\ jobs' = Take(j)
    /\ note' = [op |-> "message.delete", sessionId |-> j.sessionId, ok |-> ok,
                keys |-> MirrorKeys(mirror), item |-> Head(j.todo)]
    /\ UNCHANGED hooks
    /\ StoreRest

\* ----------------------------------------------------- storeHandlers/group
\* groups.upsert is emitted: webhook, then every upsert is started at once.
GroupsUpsert(sessionId, groups, limit) ==
    LET new == Started(Job("groups.upsert", sessionId, groups, "write"))
        sent == SendWebhook(webhook, sessionId, "groups.upsert") IN
    /\ JobRoom(new, limit) /\ HookRoom(sent)
    /\ jobs' = jobs (+) new
    /\ hooks' = hooks (+) sent
    /\ note' = [op |-> "groups.upsert", sessionId |-> sessionId]
    /\ UNCHANGED mirror
    /\ StoreRest

\* One prisma.group.upsert settles.
GroupUpserted(j, n, ok) ==
    /\ j \in Jobs /\ j.kind = "groups.upsert" /\ n \in 1..Len(j.todo)
    /\ ~AwaitsWebhook(j)
    /\ LET key == Key(j.sessionId, j.todo[n].id)
           data == TransformPrisma(j.todo[n].data) IN
       /\ mirror' = IF ok THEN SetTable("group", Upsert(mirror.group, key, data, data))
                    ELSE mirror
       /\ note' = [op |-> "group.upsert", sessionId |-> j.sessionId, id |-> key[2],
                   existed |-> Has(mirror.group, key), ok |-> ok]
    /\ jobs' = Settle(j, n)
    /\ UNCHANGED hooks
    /\ StoreRest

\* groups.update is emitted: webhook, then the first update is awaited.
GroupsUpdate(sessionId, updates, limit) ==
    LET new == Started(Job("groups.update", sessionId, updates, "write"))
        sent == SendWebhook(webhook, sessionId, "groups.update") IN
    /\ JobRoom(new, limit) /\ HookRoom(sent)
    /\ jobs' = jobs (+) new
    /\ hooks' = hooks (+) sent
    /\ note' = [op |-> "groups.update", sessionId |-> sessionId]
    /\ UNCHANGED mirror
    /\ StoreRest

\* prisma.group.update settles.  No row: P2025, the handler returns.
\* Another failure is logged and the loop goes on.
GroupUpdateWritten(j, ok) ==
    /\ j \in Jobs /\ j.kind = "groups.update"
    /\ ~AwaitsWebhook(j)
    /\ LET key == Key(j.sessionId, Head(j.todo).id)
           data == TransformPrisma(Head(j.todo).data)
           existed == Has(mirror.group, key) IN
       /\ mirror' = IF ok THEN SetTable("group", WriteUpdate(mirror.group, key, data))
                    ELSE mirror
       /\ jobs' = IF existed THEN Advance(j, "write") ELSE Take(j)
       /\ note' = [op |-> "group.update", sessionId |-> j.sessionId, id |-> key[2],
                   existed |-> existed, ok |-> ok, by |-> j.kind,
                   keys |-> MirrorKeys(mirror), rest |-> Tail(j.todo)]
    /\ UNCHANGED hooks
    /\ StoreRest

\* ---------------------------------------------------- messaging-history.set
\* The event reaches the set of the chat, the message and the contact
\* handler, in the order the Store made them listen.
HistoryDelivered(sessionId, e, limit) ==
    LET new == ChatSetStart(sessionId, e.chats)
                 (+) MessageSetStart(sessionId, e.messages)
                 (+) ContactSetStart(sessionId, e.contacts)
        one == SendWebhook(webhook, sessionId, "messaging-history.set")
        sent == one (+) one (+) one IN
    /\ JobRoom(new, limit) /\ HookRoom(sent)
    /\ jobs' = jobs (+) new
    /\ hooks' = hooks (+) sent
    /\ note' = [op |-> "messaging-history.set", sessionId |-> sessionId]
    /\ UNCHANGED mirror
    /\ SessionRest

HistorySet(sessionId, e, limit) ==
    /\ HistoryDelivered(sessionId, e, limit)
    /\ UNCHANGED replay

\* The same, with the history of deliveries kept: how many times in a row
\* this payload has come, the mirror it came upon, and whether every one of
\* these deliveries found no handler in progress.
HistorySetAgain(sessionId, e, limit) ==
    /\ HistoryDelivered(sessionId, e, limit)
    /\ replay' = IF replay.times > 0 /\ replay.event = e
                 THEN [event |-> e, times |-> Min(replay.times + 1, MaxReplays),
                       before |-> mirror, quiet |-> replay.quiet /\ jobs = EmptyBag]
                 ELSE [event |-> e, times |-> 1, before |-> mirror,
                       quiet |-> jobs = EmptyBag]

\* ------------------------------------------------------- event payloads
ChatIds == {"c1", "c2"}
Chat(id, unreadCount) == [id |-> id, data |-> [unreadCount |-> unreadCount]]

UnreadCap == 7              \* largest unreadCount the payloads drive a row to
MaxUnreadPatch == 2         \* largest unreadCount of a chats.update payload

RECURSIVE Positives(_)
Positives(todo) ==
    IF todo = <<>> THEN 0
    ELSE (IF "unreadCount" \in DOMAIN Head(todo).data
             /\ Head(todo).data.unreadCount.k = "val"
             /\ Head(todo).data.unreadCount.v > 0 THEN 1 ELSE 0) + Positives(Tail(todo))

RECURSIVE PositivesInFlight(_)
PositivesInFlight(js) ==
    IF js = {} THEN 0
    ELSE LET j == CHOOSE x \in js : TRUE IN
         (IF j.kind = "chats.update" THEN CopiesIn(j, jobs) * Positives(j.todo) ELSE 0)
         + PositivesInFlight(js \ {j})

\* The payload keeps every stored unreadCount within UnreadCap.
UnreadBounded(updates) ==
    \A key \in DOMAIN mirror.chat :
        mirror.chat[key].unreadCount.k = "val" =>
            mirror.chat[key].unreadCount.v
              + MaxUnreadPatch * (PositivesInFlight(Jobs) + Positives(updates)) <= UnreadCap

\* ----------------------------------------------- specification: webhook
\* One session with its webhook options; chats are upserted and updated and
\* phone-number shares arrive, one store handler at a time, while the sends
\* to the webhook succeed or fail.
RelayUpserts == {<<Chat("c1", Val(3))>>}
RelayUpdates == {<<Chat("c1", Val(2))>>, <<Chat("c1", Val(0))>>}

InitWebhook ==
    /\ SessionIdle
    /\ webhook \in WebhookConfigs
    /\ mirror = EmptyMirror
    /\ jobs = EmptyBag
    /\ hooks = EmptyBag
    /\ boot = BootOff
    /\ note = NoNote
    /\ replay = NoReplay

NextWebhook ==
    \/ \E id \in Ids : ChatPhoneNumberShare(id)
    \/ \E id \in Ids, b \in RelayUpserts : ChatsUpsert(id, b, 1)
    \/ \E id \in Ids, b \in RelayUpdates : UnreadBounded(b) /\ ChatsUpdate(id, b, 1)
    \/ \E j \in Jobs : ChatUpdateFound(j)
    \/ \E j \in Jobs, ok \in BOOLEAN : ChatUpdateWritten(j, ok)
    \/ \E j \in Jobs, ok \in BOOLEAN : ChatUpserted(j, 1, ok)
    \/ \E h \in BagToSet(hooks), ok \in BOOLEAN : HookPost(h, ok)
    \/ \E h \in BagToSet(hooks) : HookRetry(h)

SpecWebhook == InitWebhook /\ [][NextWebhook]_vars

\* ------------------------------------------------- specification: chats
\* The chat handlers of one session, up to two of them in progress at once.
MaxJobs == 2
UnreadPatches == {Undefined(0), JsNull(0), Val(0 - 1), Val(0), Val(2)}
ChatUpserts == {<<Chat(c, Val(3))>> : c \in ChatIds}
ChatUpdates ==
    {<<Chat(c, u)>> : c \in ChatIds, u \in UnreadPatches}
    \cup {<<Chat("c1", u), Chat("c2", Val(2))>> : u \in {Undefined(0), Val(2)}}
ChatDeletes == {<<"c1">>}

NextChats ==
    \/ \E id \in Ids, b \in ChatUpserts : ChatsUpsert(id, b, MaxJobs)
    \/ \E id \in Ids, b \in ChatUpdates : UnreadBounded(b) /\ ChatsUpdate(id, b, MaxJobs)
    \/ \E id \in Ids, b \in ChatDeletes : ChatsDelete(id, b, MaxJobs)
    \/ \E j \in Jobs : ChatUpdateFound(j)
    \/ \E j \in Jobs, ok \in BOOLEAN : ChatUpdateWritten(j, ok)
    \/ \E j \in Jobs, ok \in BOOLEAN : ChatUpserted(j, 1, ok)
    \/ \E j \in Jobs, ok \in BOOLEAN : ChatDeleted(j, ok)

SpecChats == Init /\ [][NextChats]_vars

\* ---------------------------------------------- specification: contacts
\* The contact handlers of one session.
ContactIds == {"u1", "u2"}
Names == {<<Val("Alice"), Val("al")>>, <<Val(""), Val("al")>>, <<Val("Alice"), Val("")>>,
          <<JsNull(""), Undefined("")>>}
Contact(id, name, notify) == [id |-> id, data |-> [name |-> name, notify |-> notify]]
Contacts == {Contact(c, n[1], n[2]) : c \in ContactIds, n \in Names}
ContactBatches ==
    {<<c>> : c \in Contacts}
    \cup {<<Contact("u1", Val("Alice"), Val("")), Contact("u2", Val(""), Val("al"))>>}

NextContacts ==
    \/ \E id \in Ids, b \in ContactBatches : HistorySet(id, History(<<>>, b, <<>>), MaxJobs)
    \/ \E id \in Ids, b \in ContactBatches : ContactsUpsert(id, b, MaxJobs)
    \/ \E id \in Ids, b \in ContactBatches : ContactsUpdate(id, b, MaxJobs)
    \/ \E j \in Jobs, n \in 1..2, ok \in BOOLEAN : ContactUpserted(j, n, ok)
    \/ \E j \in Jobs : ContactUpdateFound(j)
    \/ \E j \in Jobs, ok \in BOOLEAN : ContactUpdateWritten(j, ok)

SpecContacts == Init /\ [][NextContacts]_vars

\* ---------------------------------------------- specification: messages
\* messages.upsert of one session, with the chat events that give and take
\* the Chat row of a conversation.
Message(remoteJid, id, status) ==
    [id |-> id, remoteJid |-> remoteJid,
     data |-> [key |-> Val([remoteJid |-> remoteJid, id |-> id]), status |-> status,
               userReceipt |-> Undefined(<<>>), reactions |-> Undefined(<<>>)]]
MessageBatches ==
    {<<Message("c1", "m1", Val(1))>>, <<Message("c1:9", "m2", Val(1))>>,
     <<Message("c2", "m1", Val(1)), Message("c2", "m2", Val(1))>>}
UpsertTypes == {"append", "notify"}

NextMessages ==
    \/ \E id \in Ids, b \in MessageBatches, t \in UpsertTypes : MessagesUpsert(id, b, t, MaxJobs)
    \/ \E id \in Ids, b \in ChatUpserts : ChatsUpsert(id, b, MaxJobs)
    \/ \E id \in Ids, b \in ChatDeletes : ChatsDelete(id, b, MaxJobs)
    \/ \E j \in Jobs, ok \in BOOLEAN : MessageUpsertWritten(j, ok)
    \/ \E j \in Jobs, ok \in BOOLEAN : MessageCounted(j, ok)
    \/ \E j \in Jobs, ok \in BOOLEAN : ChatUpserted(j, 1, ok)
    \/ \E j \in Jobs, ok \in BOOLEAN : ChatDeleted(j, ok)

SpecMessages == Init /\ [][NextMessages]_vars

\* ----------------------------------------------- specification: updates
\* The update events of the four handlers of one session, with the events
\* that create and delete the rows they are about.
Group(id, subject) == [id |-> id, data |-> [subject |-> subject]]
GroupUpserts == {<<Group("g1", Val("a"))>>}
GroupUpdates == {<<Group("g1", Val("a"))>>, <<Group("g2", Val("a")), Group("g1", Val("a"))>>}
MessageUpdate(remoteJid, id, status) ==
    [id |-> id, remoteJid |-> remoteJid, data |-> [status |-> status]]
Receipt(remoteJid, id, userJid, t) ==
    [id |-> id, remoteJid |-> remoteJid, receipt |-> [userJid |-> userJid, t |-> t]]
Reaction(remoteJid, id, participant, text) ==
    [id |-> id, remoteJid |-> remoteJid,
     reaction |-> [key |-> [fromMe |-> FALSE, participant |-> participant,
                            remoteJid |-> remoteJid],
                   text |-> text]]
Revisions ==
    [kind \in {"messages.update", "message-receipt.update", "messages.reaction"} |->
        CASE kind = "messages.update" -> <<MessageUpdate("c1", "m1", Val(1))>>
          [] kind = "message-receipt.update" -> <<Receipt("c1", "m1", "u1", 1)>>
          [] kind = "messages.reaction" -> <<Reaction("c1", "m1", "u1", "x")>>]
MessageDeletes == {[all |-> FALSE, jid |-> "", keys |-> <<[remoteJid |-> "c1", id |-> "m1"]>>]}

NextUpdates ==
    \/ \E id \in Ids : ChatsUpsert(id, <<Chat("c1", Val(0))>>, MaxJobs)
    \/ \E id \in Ids : ChatsUpdate(id, <<Chat("c1", Val(0))>>, MaxJobs)
    \/ \E id \in Ids : ChatsDelete(id, <<"c1">>, MaxJobs)
    \/ \E id \in Ids : ContactsUpsert(id, <<Contact("u1", Val("Alice"), Val("al"))>>, MaxJobs)
    \/ \E id \in Ids : ContactsUpdate(id, <<Contact("u1", Val(""), Val("al"))>>, MaxJobs)
    \/ \E id \in Ids, b \in GroupUpserts : GroupsUpsert(id, b, MaxJobs)
    \/ \E id \in Ids, b \in GroupUpdates : GroupsUpdate(id, b, MaxJobs)
    \/ \E id \in Ids : MessagesUpsert(id, <<Message("c1", "m1", Val(1))>>, "append", MaxJobs)
    \/ \E id \in Ids, kind \in DOMAIN Revisions :
          MessagesRevise(kind, id, Revisions[kind], MaxJobs)
    \/ \E id \in Ids, item \in MessageDeletes : MessagesDelete(id, item, MaxJobs)
    \/ \E j \in Jobs : ChatUpdateFound(j)
    \/ \E j \in Jobs, ok \in BOOLEAN : ChatUpdateWritten(j, ok)
    \/ \E j \in Jobs, ok \in BOOLEAN : ChatUpserted(j, 1, ok)
    \/ \E j \in Jobs, ok \in BOOLEAN : ChatDeleted(j, ok)
    \/ \E j \in Jobs, ok \in BOOLEAN : ContactUpserted(j, 1, ok)
    \/ \E j \in Jobs : ContactUpdateFound(j)
    \/ \E j \in Jobs, ok \in BOOLEAN : ContactUpdateWritten(j, ok)
    \/ \E j \in Jobs, ok \in BOOLEAN : GroupUpserted(j, 1, ok)
    \/ \E j \in Jobs, ok \in BOOLEAN : GroupUpdateWritten(j, ok)
    \/ \E j \in Jobs, ok \in BOOLEAN : MessageUpsertWritten(j, ok)
    \/ \E j \in Jobs, ok \in BOOLEAN : MessageCounted(j, ok)
    \/ \E j \in Jobs : MessageFound(j)
    \/ \E j \in Jobs, ok \in BOOLEAN : MessageUpdateWritten(j, ok)
    \/ \E j \in Jobs, ok \in BOOLEAN : MessageListWritten(j, ok)
    \/ \E j \in Jobs, ok \in BOOLEAN : MessageDeleted(j, ok)

SpecUpdates == Init /\ [][NextUpdates]_vars

\* ----------------------------------------------- specification: history
\* Bulk sets of one session, each delivered any number of times.  A storage
\* failure strikes only once a payload has come a second time.
Histories ==
    {History(<<Chat("c1", Val(3)), Chat("c2", Val(0))>>,
             <<Contact("u1", Val("Alice"), Val("al"))>>,
             <<Message("c1:9", "m1", Val(1))>>),
     History(<<Chat("c1", Val(3)), Chat("c1", Val(3))>>,
             <<Contact("u1", Val(""), Val("al")), Contact("u2", Val("Alice"), Val(""))>>,
             <<Message("c1", "m1", Val(2)), Message("c1", "m2", Val(1))>>),
     History(<<Chat("c2", Val(0))>>, <<>>, <<>>)}
MaxSetJobs == 3
Strikes == {ok \in BOOLEAN : ok \/ replay.times >= MaxReplays}

NextHistory ==
    \/ \E id \in Ids, e \in Histories : HistorySetAgain(id, e, MaxSetJobs)
    \/ \E j \in Jobs : ChatSetFound(j)
    \/ \E j \in Jobs, ok \in Strikes : ChatSetCreated(j, ok)
    \/ \E j \in Jobs, ok \in Strikes : MessageSetWritten(j, ok)
    \/ \E j \in Jobs, n \in 1..2, ok \in Strikes : ContactUpserted(j, n, ok)

SpecHistory == Init /\ [][NextHistory]_vars

\* ------------------------------------------------- specification: relay
\* One session whose webhook takes every event: contacts and chats are
\* written, one store handler at a time, while the sends succeed or fail.
InitRelay ==
    /\ SessionIdle
    /\ webhook = WebhookAll
    /\ mirror = EmptyMirror
    /\ jobs = EmptyBag
    /\ hooks = EmptyBag
    /\ boot = BootOff
    /\ note = NoNote
    /\ replay = NoReplay

NextRelay ==
    \/ \E id \in Ids : ChatsUpsert(id, <<Chat("c1", Val(0))>>, 1)
    \/ \E id \in Ids : ContactsUpsert(id, <<Contact("u1", Val("Alice"), Val("al"))>>, 1)
    \/ \E id \in Ids : ContactsUpdate(id, <<Contact("u1", Val(""), Val("bo"))>>, 1)
    \/ \E j \in Jobs, ok \in BOOLEAN : ChatUpserted(j, 1, ok)
    \/ \E j \in Jobs, ok \in BOOLEAN : ContactUpserted(j, 1, ok)
    \/ \E j \in Jobs : ContactUpdateFound(j)
    \/ \E j \in Jobs, ok \in BOOLEAN : ContactUpdateWritten(j, ok)
    \/ \E h \in BagToSet(hooks), ok \in BOOLEAN : HookPost(h, ok)
    \/ \E h \in BagToSet(hooks) : HookRetry(h)

SpecRelay == InitRelay /\ [][NextRelay]_vars

\* ------------------------------------------------ specification: batches
\* Batches of two items in the bulk and upsert handlers of one session,
\* each write of which storage accepts or rejects.
BatchMessages == <<Message("c1", "m1", Val(1)), Message("c1", "m2", Val(1))>>
BatchChats == <<Chat("c1", Val(0)), Chat("c2", Val(0))>>

NextBatches ==
    \/ \E id \in Ids : HistorySet(id, History(<<>>, <<>>, BatchMessages), MaxJobs)
    \/ \E id \in Ids : MessagesUpsert(id, BatchMessages, "append", MaxJobs)
    \/ \E id \in Ids : ChatsUpsert(id, BatchChats, MaxJobs)
    \/ \E j \in Jobs, ok \in BOOLEAN : MessageSetWritten(j, ok)
    \/ \E j \in Jobs, ok \in BOOLEAN : MessageUpsertWritten(j, ok)
    \/ \E j \in Jobs, ok \in BOOLEAN : MessageCounted(j, ok)
    \/ \E j \in Jobs, n \in 1..2, ok \in BOOLEAN : ChatUpserted(j, n, ok)

SpecBatches == Init /\ [][NextBatches]_vars

\* ------------------------------------------------ specification: scoped
\* Two sessions that mirror chats and messages of the same ids.
StoreIds == {"acct1", "acct2"}

NextScoped ==
    \/ \E id \in StoreIds : ChatsUpsert(id, <<Chat("c1", Val(0))>>, MaxJobs)
    \/ \E id \in StoreIds : ChatsUpdate(id, <<Chat("c1", Val(0))>>, MaxJobs)
    \/ \E id \in StoreIds : ChatsDelete(id, <<"c1">>, MaxJobs)
    \/ \E id \in StoreIds : MessagesUpsert(id, <<Message("c1", "m1", Val(1))>>, "append", MaxJobs)
    \/ \E id \in StoreIds, item \in MessageDeletes : MessagesDelete(id, item, MaxJobs)
    \/ \E j \in Jobs : ChatUpdateFound(j)
    \/ \E j \in Jobs, ok \in BOOLEAN : ChatUpdateWritten(j, ok)
    \/ \E j \in Jobs, ok \in BOOLEAN : ChatUpserted(j, 1, ok)
    \/ \E j \in Jobs, ok \in BOOLEAN : ChatDeleted(j, ok)
    \/ \E j \in Jobs, ok \in BOOLEAN : MessageUpsertWritten(j, ok)
    \/ \E j \in Jobs, ok \in BOOLEAN : MessageCounted(j, ok)
    \/ \E j \in Jobs, ok \in BOOLEAN : MessageDeleted(j, ok)

SpecScoped == Init /\ [][NextScoped]_vars

\* ---------------------------------------------- specification: receipts
\* message-receipt.update events of two senders on one message of one
\* session, up to two handlers in progress at once.
ReceiptUpdates ==
    {<<Receipt("c1", "m1", "u1", 1)>>, <<Receipt("c1", "m1", "u1", 2)>>,
     <<Receipt("c1", "m1", "u2", 1)>>}

NextReceipts ==
    \/ \E id \in Ids : MessagesUpsert(id, <<Message("c1", "m1", Val(1))>>, "append", MaxJobs)
    \/ \E id \in Ids, b \in ReceiptUpdates : MessagesRevise("message-receipt.update", id, b, MaxJobs)
    \/ \E j \in Jobs, ok \in BOOLEAN : MessageUpsertWritten(j, ok)
    \/ \E j \in Jobs, ok \in BOOLEAN : MessageCounted(j, ok)
    \/ \E j \in Jobs : MessageFound(j)
    \/ \E j \in Jobs, ok \in BOOLEAN : MessageListWritten(j, ok)

SpecReceipts == Init /\ [][NextReceipts]_vars

\* --------------------------------------------- specification: reactions
\* messages.reaction events of two authors on one message of one session,
\* up to two handlers in progress at once.
ReactionUpdates ==
    {<<Reaction("c1", "m1", "u1", "x")>>, <<Reaction("c1", "m1", "u1", "")>>,
     <<Reaction("c1", "m1", "u2", "y")>>}

NextReactions ==
    \/ \E id \in Ids : MessagesUpsert(id, <<Message("c1", "m1", Val(1))>>, "append", MaxJobs)
    \/ \E id \in Ids, b \in ReactionUpdates : MessagesRevise("messages.reaction", id, b, MaxJobs)
    \/ \E j \in Jobs, ok \in BOOLEAN : MessageUpsertWritten(j, ok)
    \/ \E j \in Jobs, ok \in BOOLEAN : MessageCounted(j, ok)
    \/ \E j \in Jobs : MessageFound(j)
    \/ \E j \in Jobs, ok \in BOOLEAN : MessageListWritten(j, ok)

SpecReactions == Init /\ [][NextReactions]_vars

\* ------------------------------------------------ specification: deletes
\* Messages of two conversations are mirrored and deleted, by key list or
\* by conversation.
DeleteItems ==
    {[all |-> FALSE, jid |-> "", keys |-> <<[remoteJid |-> "c1", id |-> "m1"],
                                            [remoteJid |-> "c2", id |-> "m2"]>>],
     [all |-> FALSE, jid |-> "", keys |-> <<[remoteJid |-> "c2", id |-> "m2"]>>],
     [all |-> TRUE, jid |-> "c1", keys |-> <<>>]}

NextDeletes ==
    \/ \E id \in Ids : MessagesUpsert(id, <<Message("c1", "m1", Val(1))>>, "append", MaxJobs)
    \/ \E id \in Ids : MessagesUpsert(id, <<Message("c2", "m2", Val(1))>>, "append", MaxJobs)
    \/ \E id \in Ids, item \in DeleteItems : MessagesDelete(id, item, MaxJobs)
    \/ \E j \in Jobs, ok \in BOOLEAN : MessageUpsertWritten(j, ok)
    \/ \E j \in Jobs, ok \in BOOLEAN : MessageCounted(j, ok)
    \/ \E j \in Jobs, ok \in BOOLEAN : MessageDeleted(j, ok)

SpecDeletes == Init /\ [][NextDeletes]_vars

\* ============================================================== key store
\* useSession(sessionId) (src/unnamed/part_010): the credential key store
\* over the sessions table.  A string is the sequence of its characters.
SenderKey == <<"s", "k">>       \* a category of SignalDataTypeMap, shortened

\* const fixId = (id) => id.replace(/\//g, '__').replace(/:/g, '-').replace(/\./g, '--')
FixChar(c) ==
    CASE c = "/" -> <<"_", "_">>
      [] c = ":" -> <<"-">>
      [] c = "." -> <<"-", "-">>
      [] OTHER -> <<c>>

RECURSIVE FixId(_)
FixId(id) == IF id = <<>> THEN <<>> ELSE FixChar(Head(id)) \o FixId(Tail(id))

\* `${category}-${id}`
KeyName(category, id) == category \o <<"-">> \o id

\* JSON.stringify(data, BufferJSON.replacer) and JSON.parse(data, BufferJSON.reviver)
Stringify(value) == [k |-> "json", v |-> value.v]
Parse(text) == Val(text.v)

\* read(id), settled: the parsed data of the record, undefined when
\* findUniqueOrThrow raises (P2025 is logged, nothing is rethrown)
ReadKey(tb, sessionId, id) ==
    LET key == Key(sessionId, FixId(id)) IN
    IF Has(tb, key) THEN Parse(tb[key]) ELSE Undefined(0)

\* write(data, id), settled: INSERT ... ON DUPLICATE KEY UPDATE data; a
\* failure is logged, nothing is rethrown
WriteKey(tb, sessionId, id, value, ok) ==
    IF ok THEN Put(tb, Key(sessionId, FixId(id)), Stringify(value)) ELSE tb

\* remove(id), settled: model.delete; P2025 or any failure is logged
RemoveKey(tb, sessionId, id, ok) ==
    IF ok THEN Delete(tb, Key(sessionId, FixId(id))) ELSE tb

\* keys.set(data) is called: every pair of the patch becomes a write (truthy
\* value) or a remove, all started before Promise.all is awaited.
KeysSet(sessionId, patch, limit) ==
    LET new == Started(Job("keys.set", sessionId, patch, "write")) IN
    /\ JobRoom(new, limit)
    /\ jobs' = jobs (+) new
    /\ note' = [op |-> "keys.set", sessionId |-> sessionId, patch |-> patch,
                failed |-> FALSE, done |-> patch = <<>>, table |-> mirror.session]
    /\ UNCHANGED <<mirror, hooks>>
    /\ StoreRest

\* One write or remove of a keys.set settles; the set returns when the last
\* one has.
KeyOpSettled(j, n, ok) ==
    /\ j \in Jobs /\ j.kind = "keys.set" /\ n \in 1..Len(j.todo)
    /\ LET op == j.todo[n]
           name == KeyName(op.category, op.id)
           tb == IF ~Falsy(op.value, 0)
                 THEN WriteKey(mirror.session, j.sessionId, name, op.value, ok)
                 ELSE RemoveKey(mirror.session, j.sessionId, name, ok) IN
       /\ mirror' = SetTable("session", tb)
       /\ note' = [op |-> "keys.set", sessionId |-> j.sessionId, patch |-> note.patch,
                   failed |-> note.failed \/ ~ok, done |-> Len(j.todo) = 1,
                   table |-> note.table]
    /\ jobs' = Settle(j, n)
    /\ UNCHANGED hooks
    /\ StoreRest

\* keys.get(type, ids): the reads run together, and the result maps every
\* id asked for to what its read gave.
KeysGet(sessionId, category, ids) ==
    /\ jobs = EmptyBag
    /\ note' = [op |-> "keys.get", sessionId |-> sessionId, category |-> category,
                data |-> [id \in ids |->
                             ReadKey(mirror.session, sessionId, KeyName(category, id))],
                raised |-> FALSE]
    /\ UNCHANGED <<mirror, jobs, hooks>>
    /\ StoreRest

\* ------------------------------------------------ specification: keys
KeyIds == {<<"a", ":", "1">>, <<"a", "-", "1">>, <<"b">>}
KeyValues == {Val(7), JsNull(0)}
KeyOp(category, id, value) == [category |-> category, id |-> id, value |-> value]

\* data[category][id]: one or two ids of one category
KeyPatches ==
    {<<KeyOp(SenderKey, id, v)>> : id \in KeyIds, v \in KeyValues}
    \cup {<<KeyOp(SenderKey, x[1], x[3]), KeyOp(SenderKey, x[2], x[4])>> :
             x \in {y \in KeyIds \X KeyIds \X KeyValues \X KeyValues : y[1] # y[2]}}

NextKeys ==
    \/ \E id \in StoreIds, patch \in KeyPatches : KeysSet(id, patch, 1)
    \/ \E j \in Jobs, n \in 1..2, ok \in BOOLEAN : KeyOpSettled(j, n, ok)
    \/ \E id \in StoreIds, ids \in SUBSET KeyIds : KeysGet(id, SenderKey, ids)

SpecKeys == Init /\ [][NextKeys]_vars

\* ------------------------------------------- specification: subscriptions
\* listen() and unlisten() are called, on one handler or through the Store,
\* in any order, while the socket goes on emitting events.
BusRest ==
    UNCHANGED <<envMaxRetries, sessions, retries, QRGenerations, records, config, inst,
                pending, rendered, scheduled, closeRun, openHandled, last, options,
                webhook, mirror, jobs, hooks, boot, replay>>

ListenCalled(h) ==
    /\ bus' = HandlerListen(bus, h)
    /\ note' = [op |-> "listen", handlers |-> {h}, again |-> bus.started[h], bus |-> bus]
    /\ BusRest

UnlistenCalled(h) ==
    /\ bus' = HandlerUnlisten(bus, h)
    /\ note' = [op |-> "unlisten", handlers |-> {h}, again |-> ~bus.started[h], bus |-> bus]
    /\ BusRest

StoreListenCalled ==
    /\ bus' = StoreListen(bus)
    /\ note' = [op |-> "listen", handlers |-> Handlers,
                again |-> \A h \in Handlers : bus.started[h], bus |-> bus]
    /\ BusRest

StoreUnlistenCalled ==
    /\ bus' = StoreUnlisten(bus)
    /\ note' = [op |-> "unlisten", handlers |-> Handlers,
                again |-> \A h \in Handlers : ~bus.started[h], bus |-> bus]
    /\ BusRest

\* The socket emits chats.upsert or groups.upsert: the callback listed for
\* the event runs.
EmitChatsUpsert(sessionId, chats, limit) ==
    /\ Times(bus.on["chats.upsert"], "chat.upsert") > 0
    /\ ChatsUpsert(sessionId, chats, limit)

EmitGroupsUpsert(sessionId, groups, limit) ==
    /\ Times(bus.on["groups.upsert"], "group.upsert") > 0
    /\ GroupsUpsert(sessionId, groups, limit)

NextSubscriptions ==
    \/ \E h \in Handlers : ListenCalled(h)
    \/ \E h \in Handlers : UnlistenCalled(h)
    \/ StoreListenCalled
    \/ StoreUnlistenCalled
    \/ \E id \in Ids : EmitChatsUpsert(id, <<Chat("c1", Val(0))>>, 1)
    \/ \E id \in Ids : EmitGroupsUpsert(id, <<Group("g1", Val(0))>>, 1)
    \/ \E j \in Jobs, ok \in BOOLEAN : ChatUpserted(j, 1, ok)
    \/ \E j \in Jobs, ok \in BOOLEAN : GroupUpserted(j, 1, ok)

SpecSubscriptions == Init /\ [][NextSubscriptions]_vars

\* =================================================================== boot
\* whatsappInit.init().  `stored` is what findMany returns: the Session
\* Configuration Records in storage order, each well formed or not.
BootIds == {"acct1", "acct2", "acct3"}
MaxStored == 3

StoredRecord(sessionId, wellFormed) == [sessionId |-> sessionId, wellFormed |-> wellFormed]

RECURSIVE StoredLists(_)
StoredLists(n) ==
    IF n = 0 THEN {<<>>}
    ELSE LET shorter == StoredLists(n - 1) IN
         shorter \cup
         {Append(l, StoredRecord(id, w)) :
             l \in {x \in shorter : Len(x) = n - 1}, id \in BootIds, w \in BOOLEAN}

DistinctIds(l) == \A i, j \in 1..Len(l) : i # j => l[i].sessionId # l[j].sessionId

\* for (const { sessionId, data } of sessions) { JSON.parse(data); Session.create(...) }
\* The ids Session.create is called for, and whether the loop completes.
RECURSIVE CreateStored(_, _)
CreateStored(l, started) ==
    IF l = <<>> THEN [started |-> started, threw |-> FALSE]
    ELSE IF ~Head(l).wellFormed THEN [started |-> started, threw |-> TRUE]
    ELSE CreateStored(Tail(l), started \cup {Head(l).sessionId})

\* init() is called: initStore, then findMany is awaited.
BootStart(l) ==
    /\ boot.phase = "off"
    /\ l \in StoredLists(MaxStored) /\ DistinctIds(l)
    /\ boot' = [phase |-> "findMany", stored |-> l, started |-> {}]
    /\ note' = [op |-> "boot"]
    /\ UNCHANGED <<webhook, mirror, jobs, hooks, replay>>
    /\ UNCHANGED sessionVars

\* findMany settles; fetchLatestBaileysVersion is awaited next.
BootFound(ok) ==
    /\ boot.phase = "findMany"
    /\ boot' = [boot EXCEPT !.phase = IF ok THEN "version" ELSE "rejected"]
    /\ note' = [op |-> "boot"]
    /\ UNCHANGED <<webhook, mirror, jobs, hooks, replay>>
    /\ UNCHANGED sessionVars

\* fetchLatestBaileysVersion settles (it falls back to the bundled version
\* and does not reject); the loop over the records runs to its end or to
\* the first throw.
BootCreate ==
    /\ boot.phase = "version"
    /\ LET r == CreateStored(boot.stored, {}) IN
       boot' = [boot EXCEPT !.phase = IF r.threw THEN "threw" ELSE "done",
                            !.started = r.started]
    /\ note' = [op |-> "boot"]
    /\ UNCHANGED <<webhook, mirror, jobs, hooks, replay>>
    /\ UNCHANGED sessionVars

NextBoot ==
    \/ \E l \in StoredLists(MaxStored) : BootStart(l)
    \/ \E ok \in BOOLEAN : BootFound(ok)
    \/ BootCreate

SpecBoot == Init /\ [][NextBoot]_vars


\* ---------------------------------------------------------------- claims
Quiet(id) == \A t \in Tasks : t.id # id

\* C1: between two opens at most MAX_QR_GENERATION images are rendered for a
\* session id, and the QR event that finds the cap reached renders nothing.
C1_QRRenderCap ==
    /\ \A id \in Ids : rendered[id] <= MAX_QR_GENERATION
    /\ last.op = "render" /\ last.terminal => ~last.ok

\* C2: with a finite budget, at most MAX_RECONNECT_RETRIES reconnections are
\* scheduled for a session id without an open in between.
C2_ReconnectBudget ==
    maxRetries # -1 => \A id \in Ids : scheduled[id] <= MAX_RECONNECT_RETRIES

\* C3: handling a logged-out close of an open session never increments the
\* retry counter of the id and schedules no reconnection timer.
C3_LoggedOutNoRetry ==
    last.op = "close" /\ last.reason = "loggedOut" /\ last.wasOpen =>
        /\ ~Has(retries, last.id)
        /\ \A t \in Tasks : ~(t.kind = "timer" /\ t.id = last.id)

\* C4: after an open has been handled, and until the next QR or close event
\* of the id, both counters are absent and the cached QR is null.
C4_OpenClearsCounters ==
    \A id \in Ids : openHandled[id] =>
        /\ ~Has(retries, id)
        /\ ~Has(QRGenerations, id)
        /\ \A i \in Slots : inst[i].sessionId = id => inst[i].lastGeneratedQR = Null

\* C5: a destroyed session id stays out of the registry until a create is
\* requested for it: a reconnection timer never registers a Session for an
\* id the registry no longer holds.
C5_DestroyIsTerminal ==
    last.op = "create" /\ ~last.explicit => last.existed

\* C6: destroy ends with the id removed from sessions, retries and
\* QRGenerations whether logout and the record delete succeed or fail, and
\* raises nothing.
C6_DestroyAlwaysUnregisters ==
    last.op = "destroy" =>
        /\ ~Has(sessions, last.id)
        /\ ~Has(retries, last.id)
        /\ ~Has(QRGenerations, last.id)
        /\ ~last.raised

C6_FailedDestroyWitness ==
    last.op = "destroy" /\ ~last.ok

\* C7: a second destroy of the same Session, or a Session.delete of an id
\* the registry does not hold, does not throw and leaves the registry
\* without the id.
C7_DestroyTwice ==
    (last.op = "deleteAbsent" \/ (last.op = "destroy" /\ last.again)) =>
        /\ ~Has(sessions, last.id)
        /\ ~last.raised

C7_SecondDestroyWitness ==
    last.op = "destroy" /\ last.again

\* C8: after MAX_QR_GENERATION QR events handled with no open in between and
\* nothing of the id still in flight, the id is absent from Session.list().
C8_AbsentAfterMaxQR ==
    \A id \in Ids : rendered[id] >= MAX_QR_GENERATION /\ Quiet(id) => ~Has(sessions, id)

\* C9: a restart-required close schedules the recreation with delay 0 and
\* leaves the retry counter unchanged; a retryable close under budget adds
\* exactly one and schedules the recreation after RECONNECT_INTERVAL.
C9_RestartKeepsBudget ==
    last.op = "close" =>
        /\ last.reason = "restartRequired" =>
              /\ TimerTask(last.id, 0) \in Tasks
              /\ Get(retries, last.id, 0) = last.attempts
        /\ last.reason = "connectionLost" /\ last.attempts < MAX_RECONNECT_RETRIES =>
              /\ TimerTask(last.id, RECONNECT_INTERVAL) \in Tasks
              /\ Get(retries, last.id, 0) = last.attempts + 1

\* C10: the retry counter belongs to the id: after k retryable closes in a
\* row, with no open and no destroy of the id in between, it is k, whichever
\* Session handled them; the entry is absent after an open and after a
\* destroy.
C10_RetryCounterById ==
    /\ \A id \in Ids : closeRun[id] >= 1 => Get(retries, id, 0) = closeRun[id]
    /\ last.op \in {"open", "destroy"} => ~Has(retries, last.id)

C10_RespawnWitness ==
    \E id \in Ids : closeRun[id] = 2 /\ last.op = "close" /\ retries[id] = 2

\* C11: with MAX_RECONNECT_RETRIES = -1 a close that is not logged-out always
\* schedules a reconnection, whatever the retry counter has reached, and
\* does not start a destroy for the budget.
C11_UnlimitedAlwaysReconnects ==
    maxRetries = -1 /\ last.op = "close" /\ last.reason # "loggedOut" =>
        /\ ~last.terminal
        /\ TimerTask(last.id, ReconnectDelay(last.reason)) \in Tasks
        /\ \A t \in Tasks : t.kind = "destroy" /\ t.id = last.id => t.n = 0

C11_BeyondDefaultWitness ==
    /\ maxRetries = -1 /\ last.op = "close" /\ last.reason = "connectionLost"
    /\ last.attempts > DefaultMaxRetries
    /\ TimerTask(last.id, RECONNECT_INTERVAL) \in Tasks

\* C12: status() is AUTHENTICATED whenever socket.user is set, in every
\* readiness phase, and otherwise CONNECTING, CONNECTED, DISCONNECTING,
\* DISCONNECTED for the phases 0, 1, 2, 3.
C12_StatusMapping ==
    /\ \A rs \in {CONNECTING, OPEN, CLOSING, CLOSED} :
          /\ Status(rs, TRUE) = "AUTHENTICATED"
          /\ Status(rs, FALSE) = CASE rs = 0 -> "CONNECTING"
                                    [] rs = 1 -> "CONNECTED"
                                    [] rs = 2 -> "DISCONNECTING"
                                    [] rs = 3 -> "DISCONNECTED"
    /\ \A id \in DOMAIN sessions :
          LET s == inst[sessions[id]] IN
          /\ s.user => Status(s.readyState, s.user) = "AUTHENTICATED"
          /\ ~s.user /\ s.readyState = CLOSED =>
                Status(s.readyState, s.user) = "DISCONNECTED"

C12_AuthenticatedClosedWitness ==
    \E id \in DOMAIN sessions :
        inst[sessions[id]].user /\ inst[sessions[id]].readyState = CLOSED

\* C20: once the records have been fetched and the loop of init has ended,
\* init has completed and Session.create has been called for every stored
\* record that is well formed, wherever a malformed record stands in the list.
C20_BootIsolatesMalformed ==
    boot.phase \in {"done", "threw"} =>
        /\ boot.phase = "done"
        /\ \A i \in 1..Len(boot.stored) :
              boot.stored[i].wellFormed => boot.stored[i].sessionId \in boot.started

\* C18: one webhook send makes at most 1 + 3 POSTs, also when every POST
\* fails.
C18_WebhookRetryCap ==
    \A h \in BagToSet(hooks) : h.posts <= 1 + WEBHOOK_TRIES

C15_UnreadCountPatch ==
    note.op = "chat.update" /\ note.existed /\ note.ok
      /\ note.before.unreadCount.k = "val" =>
        LET u == note.before.unreadCount.v
            n == note.patch.unreadCount
            stored == mirror.chat[Key(note.sessionId, note.id)].unreadCount IN
        /\ n.k = "val" /\ n.v > 0 => stored = Val(u + n.v)
        /\ n.k = "val" /\ n.v <= 0 => stored = Val(n.v)
        /\ n.k # "val" => stored = Val(u)

C15_ThreeThenTwoWitness ==
    /\ note.op = "chat.update" /\ note.existed /\ note.ok
    /\ note.before.unreadCount = Val(3) /\ note.patch.unreadCount = Val(2)
    /\ mirror.chat[Key(note.sessionId, note.id)].unreadCount = Val(5)

\* C14: a contact set, upsert or update that carries an empty, null or
\* missing name (or notify) for an existing contact whose stored name (or
\* notify) is non-empty leaves that stored value as it was.
C14_ContactNameKept ==
    note.op = "contact.write" /\ note.existed =>
        \A f \in {"name", "notify"} :
            ~Falsy(note.before[f], "") /\ Falsy(note.patch[f], "") =>
                mirror.contact[Key(note.sessionId, note.id)][f] = note.before[f]

C14_EmptyNameOnAliceWitness ==
    /\ note.op = "contact.write" /\ note.existed /\ note.ok
    /\ note.by = "contacts.update"
    /\ note.before.name = Val("Alice") /\ note.patch.name = Val("")
    /\ note.patch.notify = Val("al") /\ note.before.notify # Val("al")
    /\ mirror.contact[Key(note.sessionId, note.id)] = [name |-> Val("Alice"), notify |-> Val("al")]

\* C16: when the write and the count of a message of a messages.upsert have
\* settled, a notify message whose conversation has no Chat row has raised
\* exactly one chats.upsert for the conversation, with unreadCount 1; with a
\* Chat row, or for type append, none is raised.
C16_SyntheticChatUpsert ==
    note.op = "message.count" /\ note.ok =>
        IF note.type = "notify" /\ ~note.existed
        THEN /\ note.emitted = <<Chat(note.id, Val(1))>>
             /\ \E c \in Jobs : c.kind = "chats.upsert" /\ c.todo = note.emitted
        ELSE note.emitted = <<>>

C16_NotifyNewConversationWitness ==
    /\ note.op = "message.count" /\ note.ok /\ note.type = "notify"
    /\ ~note.existed /\ note.id = "c1"
    /\ Has(mirror.message, <<note.sessionId, "c1", "m2">>)
    /\ \E c \in Jobs : c.kind = "chats.upsert" /\ c.todo = <<Chat("c1", Val(1))>>

UpdateKinds == {"chats.update", "contacts.update", "groups.update", "messages.update",
                "message-receipt.update", "messages.reaction"}

\* C17: a step of the handler of an update event (chats.update,
\* contacts.update, groups.update, messages.update, message-receipt.update,
\* messages.reaction) that finds no row of the id it is about leaves the set
\* of keys of the mirror as it was: no row is created.
C17_UpdatesNeverCreate ==
    ("by" \in DOMAIN note /\ note.by \in UpdateKinds /\ ~note.existed)
        => MirrorKeys(mirror) = note.keys

C17_GroupUpdateWithoutRowWitness ==
    /\ note.op = "group.update" /\ ~note.existed /\ note.ok /\ note.id = "g2"
    /\ ~Has(mirror.group, Key(note.sessionId, "g2"))
    /\ Has(mirror.group, Key(note.sessionId, "g1"))

\* C13: when a messaging-history.set payload (isLatest = false) that was
\* applied with no handler in progress and no storage failure is delivered
\* again, the replay adds no row: the (sessionId, id) keys of the chats,
\* contacts and messages are those the first application left (a key has
\* one row, the tables being keyed by the unique index).
C13_ReplayAddsNoRow ==
    replay.times >= MaxReplays /\ replay.quiet =>
        MirrorKeys(mirror) = MirrorKeys(replay.before)

C13_ReplaySettledWitness ==
    /\ replay.times >= MaxReplays /\ replay.quiet /\ jobs = EmptyBag
    /\ replay.event.messages # <<>> /\ replay.event.contacts # <<>>
    /\ Has(replay.before.chat, Key("acct1", "c1"))
    /\ Has(replay.before.chat, Key("acct1", "c2"))
    /\ Has(replay.before.message, <<"acct1", "c1", "m1">>)
    /\ mirror = replay.before
    /\ note.op = "contact.write" /\ note.existed /\ note.ok

\* The events whose handlers write to the mirror
MutatingEvents == {"messaging-history.set", "chats.upsert", "chats.update", "chats.delete",
                   "contacts.upsert", "contacts.update", "groups.upsert", "groups.update",
                   "messages.upsert", "messages.update", "messages.delete",
                   "message-receipt.update", "messages.reaction"}

\* C21: when the handler of an event that writes to the mirror has run up
\* to its first await (no write is started yet), the event is on its way to
\* the webhook: a first POST of it is in progress.
C21_ForwardedBeforeWrite ==
    note.op \in MutatingEvents /\ webhook = WebhookAll =>
        \E h \in BagToSet(hooks) :
            /\ h.sessionId = note.sessionId /\ h.event = note.op
            /\ h.phase = "post" /\ h.posts = 1

\* C23: a contact row that existed when a messaging-history.set arrived has
\* every field unchanged once the set has written for its id.
C23_SetLeavesExistingRows ==
    note.op = "contact.write" /\ note.by = "contacts.set" /\ note.existed =>
        mirror.contact[Key(note.sessionId, note.id)] = note.before

\* C24: when messageHandler.set has returned, every message of its batch
\* that comes after the one it wrote last is in the mirror: a write that
\* failed has not kept the later messages from being written.
C24_FailureAbandonsOneItem ==
    /\ note.op = "message.write" /\ note.by = "messages.set"
    /\ \A j \in Jobs : j.kind # "messages.set"
    => \A n \in 1..Len(note.rest) :
           Has(mirror.message, MessageKey(note.sessionId, note.rest[n]))

\* C25: when a patch of a groups.update batch finds no row of its id, the
\* handler goes on with the later patches of the batch.
C25_NotFoundKeepsBatchGoing ==
    note.op = "group.update" /\ ~note.existed /\ note.rest # <<>> =>
        \E j \in Jobs : j.kind = "groups.update" /\ j.todo = note.rest

\* C26: a chats.delete of one session leaves the chat rows of every other
\* session in the mirror.
C26_DeleteScopedBySession ==
    note.op = "chat.delete" =>
        \A key \in note.keys.chat : key[1] # note.sessionId => Has(mirror.chat, key)

\* the elements of a list, as a set
Entries(list) == {list[n] : n \in 1..Len(list)}

\* C29: when a receipt has been written to a message, the stored list has
\* one entry per sender, the sender's entry is the receipt, and the entry
\* every other sender had (that sender's most recent update) is still there.
C29_ReceiptPerSender ==
    note.op = "message.update" /\ note.by = "message-receipt.update" /\ note.ok =>
        LET stored == mirror.message[note.key].userReceipt.v IN
        /\ \A n, m \in 1..Len(stored) : stored[n].userJid = stored[m].userJid => n = m
        /\ note.entry \in Entries(stored)
        /\ \A r \in Entries(note.before) :
               r.userJid # note.entry.userJid => r \in Entries(stored)

\* C30: when a reaction has been written to a message, the stored list has
\* one reaction per author and none with an empty text, the author's entry
\* is the reaction (none for an empty text), and the reactions of the other
\* authors are still there.
C30_ReactionPerAuthor ==
    note.op = "message.update" /\ note.by = "messages.reaction" /\ note.ok =>
        LET stored == mirror.message[note.key].reactions.v
            author == GetKeyAuthor(note.entry.key) IN
        /\ \A n, m \in 1..Len(stored) :
               GetKeyAuthor(stored[n].key) = GetKeyAuthor(stored[m].key) => n = m
        /\ \A r \in Entries(stored) : r.text # ""
        /\ IF note.entry.text # "" THEN note.entry \in Entries(stored)
           ELSE \A r \in Entries(stored) : GetKeyAuthor(r.key) # author
        /\ \A r \in Entries(note.before) :
               GetKeyAuthor(r.key) # author => r \in Entries(stored)

\* C22: when requestPairingCode has given a code to a session whose
\* response is missing or has already sent its headers, the handler has not
\* thrown and the response is as it was.
C22_PairingWithoutResponse ==
    last.op = "pairing" /\ last.ok /\ (~last.before.attached \/ last.before.headersSent)
        => ~last.raised /\ options.res = last.before

\* C27: no handler writes to the attached response after it has ended.
C27_NoWriteAfterEnd ==
    ~options.res.late

\* C28: when a terminal close finds the attached response still open, the
\* response is ended and what it was sent last is an error.
C28_TerminalCloseFailsPending ==
    last.op = "close" /\ last.terminal /\ last.before.attached /\ ~last.before.writableEnded
        => options.res.writableEnded /\ options.res.sent = "error"

\* C31: every callback of a store handler is listed once for its event when
\* the handler's last call was listen() and not at all when it was
\* unlisten(); a repeated listen() or unlisten() changes nothing; the
\* session's own subscription stays listed.
C31_ListenToggles ==
    /\ \A h \in Handlers : \A n \in 1..Len(Subscriptions(h)) :
           Times(bus.on[Subscriptions(h)[n][1]], Subscriptions(h)[n][2])
               = IF bus.started[h] THEN 1 ELSE 0
    /\ Times(bus.on[SessionCallback[1]], SessionCallback[2]) = 1
    /\ note.op = "listen" => /\ \A h \in note.handlers : bus.started[h]
                             /\ note.again => bus = note.bus
    /\ note.op = "unlisten" => /\ \A h \in note.handlers : ~bus.started[h]
                               /\ note.again => bus = note.bus

\* listen() has been repeated on the chat handler while the message handler
\* is detached.
C31_RepeatedListenWitness ==
    /\ note.op = "listen" /\ note.handlers = {"chat"} /\ note.again
    /\ ~bus.started["message"]

\* C32: at most one reconnection timer is pending for a session id.
C32_OneTimerPerId ==
    \A id \in Ids : \A t \in Tasks :
        t.kind = "timer" /\ t.id = id => CopiesIn(t, pending) = 1 /\
            \A o \in Tasks : o.kind = "timer" /\ o.id = id => o = t

\* the value the key store holds for (sessionId, category-id)
Stored(sessionId, op) == ReadKey(mirror.session, sessionId, KeyName(op.category, op.id))

\* C33: when a keys.set has returned with no storage failure, reading any
\* pair of its patch gives the pair's value when that is truthy and
\* nothing when it is falsy.
C33_KeyStoreIsMap ==
    note.op = "keys.set" /\ note.done /\ ~note.failed =>
        \A n \in 1..Len(note.patch) :
            Stored(note.sessionId, note.patch[n]) =
                IF Falsy(note.patch[n].value, 0) THEN Undefined(0) ELSE note.patch[n].value

\* C40: fixId gives distinct identifiers distinct storage keys: a keys.set
\* leaves the value read for every identifier it does not name as it was.
C40_FixIdInjective ==
    note.op = "keys.set" /\ note.done =>
        \A id \in KeyIds :
            (\A n \in 1..Len(note.patch) : note.patch[n].id # id) =>
                ReadKey(mirror.session, note.sessionId, KeyName(SenderKey, id))
                    = ReadKey(note.table, note.sessionId, KeyName(SenderKey, id))

\* C34: when the deleteMany of a messages.delete has succeeded, no message
\* of the session with a listed key remains (key list), none of the
\* conversation remains (all), and the messages of the other conversations
\* are the ones mirrored before.
C34_DeleteRemovesListed ==
    note.op = "message.delete" /\ note.ok =>
        LET item == note.item
            listed == {<<note.sessionId, item.keys[n].remoteJid, item.keys[n].id>> :
                          n \in 1..Len(item.keys)} IN
        /\ ~item.all => \A key \in listed : ~Has(mirror.message, key)
        /\ item.all => \A key \in DOMAIN mirror.message :
                           ~(key[1] = note.sessionId /\ key[2] = item.jid)
        /\ \A key \in note.keys.message :
               key[2] \notin ({item.jid} \cup {item.keys[n].remoteJid : n \in 1..Len(item.keys)})
                   => Has(mirror.message, key)

\* C35: a close that has been handled has either destroyed the session or
\* scheduled one recreation, not both and not neither.
C35_CloseOneOutcome ==
    last.op = "close" =>
        LET destroys == last.terminal \/ last.limit
            recreates == ~last.terminal IN
        destroys # recreates

\* C39: every session id in the registry has a Session Configuration
\* Record in storage.
C39_RegisteredHasRecord ==
    \A id \in Ids : Has(sessions, id) => id \in records

\* The Session objects of id whose socket is not closed.
Running(id) == {i \in Slots : inst[i].sessionId = id /\ inst[i].readyState # CLOSED}

\* C36: for every id at most one Session has a socket that is not closed,
\* and that Session is the one the registry holds for the id.
C36_OneRunningSession ==
    \A id \in Ids :
        /\ Cardinality(Running(id)) <= 1
        /\ \A i \in Running(id) : Get(sessions, id, 0) = i

\* C37: when destroy() completes on a Session that the registry has
\* replaced, the registry entry, the retry counter and the configuration
\* record of the id are still there.
C37_DestroySparesSuccessor ==
    last.op = "destroy" /\ last.replaced =>
        /\ Has(sessions, last.id)
        /\ Get(retries, last.id, 0) = last.attempts
        /\ last.id \in records

\* C38: a Session.create started by a reconnection timer leaves the
\* options held by an existing configuration record as they were (an
\* update request may have stored them), and the Session it constructs
\* runs with those options.
C38_RestartKeepsUpdate ==
    [][last'.op = "create" /\ ~last'.explicit /\ config[last'.id] # NoData =>
          /\ Member(config'[last'.id], "readIncomingMessages") =
                 Member(config[last'.id], "readIncomingMessages")
          /\ ToText(options'.readIncomingMessages) =
                 Member(config[last'.id], "readIncomingMessages")]_vars

====
